---- MODULE Spec2Model ----
(***************************************************************************)
(* depfused: dependency-confusion scanner.                                 *)
(*                                                                         *)
(* The subsystems are modelled each with its own specification over the    *)
(* shared variables:                                                       *)
(*   SpecFetch  JsFetcher::fetch_one (retry loop, content-hash seen set)   *)
(*   SpecNpm    NpmChecker::check_package with RegistryCache, and the      *)
(*              registry-check half of Scanner::process_captured_js        *)
(*   SpecScan   Scanner::scan_multiple over scan_host_group and            *)
(*              BrowserCapture::capture_multiple                           *)
(*   SpecDedup  Scanner::deduplicate_packages over the extracted packages  *)
(*   SpecLazy   the lazy-chunk loop of Scanner::process_captured_js        *)
(*   SpecSettle the adaptive wait of BrowserCapture::capture_js_files      *)
(*   SpecCache  threads calling RegistryCache::get and set                 *)
(* and single calls of pure functions, from argument to return value:      *)
(*   SpecGroup      browser::group_by_host                                 *)
(*   SpecFinding    Scanner::create_finding                                *)
(*   SpecNormalize  parser::normalize_package_name                         *)
(*   SpecParse      SourceMapParser::parse, filters::should_filter_package *)
(***************************************************************************)
EXTENDS Integers, Sequences, FiniteSets, TLC

VARIABLES
    \* ---- JsFetcher (discovery/js_fetcher.rs)
    max_retries,     \* HttpConfig.max_retries
    seen_hashes,     \* JsFetcher.seen_hashes
    fcalls,          \* the fetch_one calls in flight, one record per call
    \* ---- NpmChecker / RegistryCache (registry/npm.rs, registry/cache.rs)
    now,             \* Instant::now(), in ticks
    cache,           \* RegistryCache.cache: name -> entry or NoEntry
    ncalls,          \* the check_package calls of the running scan
    packages_to_check, \* process_captured_js: the sorted, deduplicated list
    results,         \* process_captured_js: (package, result) in completion order
    findings,        \* process_captured_js: findings of the running scan
    npc,             \* process_captured_js: position in the registry half
    scans,           \* number of scans this Scanner has run
    skip_npm_check,  \* ScanConfig.skip_npm_check
    \* ---- Scanner::scan_multiple (scanner.rs, browser.rs, browser_capture.rs)
    targets,         \* the input list
    parallel,        \* ScanConfig.parallel
    spc,             \* position of scan_multiple
    host_groups,     \* group_by_host(targets), the stream still to start
    groups,          \* the scan_host_group futures in flight
    all_group_results, \* completed groups, in completion order
    output,          \* what scan_multiple returned
    faults,          \* failures injected so far in this run
    BROWSER_INSTANCE_COUNTER, \* the static AtomicU64 of browser_capture.rs
    launched,        \* per temp dir, in order of creation: browsers launched with it
    \* ---- package extraction (scanner.rs, parser/, browser.rs)
    all_packages,    \* process_captured_js: the packages the file tasks found
    pending,         \* deduplicate_packages: packages the for loop has yet to visit
    by_name,         \* deduplicate_packages: name -> kept package
    dpc,             \* position of the deduplication
    arg,             \* the argument of the function under call
    ret,             \* what it returned
    \* ---- loops of one call (scanner.rs, browser_capture.rs) and cache callers
    lazy,            \* process_captured_js: the lazy-chunk discovery loop
    settle,          \* capture_js_files: the adaptive wait after navigation
    callers          \* threads calling RegistryCache::get / set on one name

fetchVars == <<max_retries, seen_hashes, fcalls>>
npmVars   == <<now, cache, ncalls, packages_to_check, results, findings, npc, scans,
              skip_npm_check>>
scanVars  == <<targets, parallel, spc, host_groups, groups, all_group_results, output, faults>>
extractVars == <<all_packages, pending, by_name, dpc, arg, ret>>
browserVars == <<BROWSER_INSTANCE_COUNTER, launched>>
loopVars  == <<lazy, settle, callers>>
vars      == <<fetchVars, npmVars, scanVars, extractVars, browserVars, loopVars>>

----------------------------------------------------------------------------
(* Generic helpers *)

Range(s) == {s[i] : i \in 1..Len(s)}

Min(a, b) == IF a <= b THEN a ELSE b

Max(a, b) == IF a >= b THEN a ELSE b

SeqsUpTo(S, n) == UNION {[1..k -> S] : k \in 0..n}

\* No call is under way; nothing has returned.
NoArg == [f |-> "none"]

NoRet == [f |-> "none"]

----------------------------------------------------------------------------
(* JsFetcher::fetch_one                                                    *)

MaxRetries == 3      \* max_retries ranges over 0..MaxRetries

MaxFetchCalls == 2   \* concurrent fetch_one calls on one JsFetcher

FetchIds == 1..MaxFetchCalls

Contents == {"body1", "body2"}

\* What the server does with one request: a transport failure, or a status
\* (200 with a body; 304, 404, 500 without one that is read).
Responses ==
    {[kind |-> "transport", code |-> 0, content |-> ""]}
    \cup {[kind |-> "status", code |-> c, content |-> ""] : c \in {304, 404, 500}}
    \cup {[kind |-> "status", code |-> 200, content |-> b] : b \in Contents}

is_success(code) == code >= 200 /\ code <= 299

is_client_error(code) == code >= 400 /\ code <= 499

is_server_error(code) == code >= 500 /\ code <= 599

\* reqwest Response::error_for_status: Err for 4xx and 5xx, Ok(self) otherwise.
error_for_status(code) ==
    IF is_client_error(code) \/ is_server_error(code) THEN "Err" ELSE "Ok"

\* do_fetch: Ok(content), Err(HttpError) with or without a status, or the
\* panic of unwrap_err() on an Ok value. status 0 stands for "no status".
do_fetch(resp) ==
    IF resp.kind = "transport"
    THEN [tag |-> "Err", status |-> 0, content |-> ""]
    ELSE IF ~is_success(resp.code)
         THEN IF error_for_status(resp.code) = "Err"
              THEN [tag |-> "Err", status |-> resp.code, content |-> ""]
              ELSE [tag |-> "Panic", status |-> resp.code, content |-> ""]
         ELSE [tag |-> "Ok", status |-> resp.code, content |-> resp.content]

should_retry_always(e) == TRUE

\* fetch_one: the should_retry decision on Err(e).
should_retry(e) ==
    IF e.status # 0 THEN ~is_client_error(e.status) ELSE TRUE

\* JsFetcher::hash_content: SHA-256 of the content, hex encoded.
hash_content(content) == <<"sha256", content>>

backoff_ms(retries) == 500 * retries

NoFile == [some |-> FALSE, content_hash |-> <<>>]

IdleCall ==
    [pc |-> "idle", retries |-> 0, requests |-> 0, admissions |-> 0,
     sleeps |-> <<>>, first |-> "none", allRetryable |-> TRUE,
     hash |-> <<>>, result |-> NoFile]

\* Ghost classification of a response: what kind of answer the request got.
RespClass(resp) ==
    IF resp.kind = "transport" THEN "transport"
    ELSE IF is_success(resp.code) THEN "2xx"
    ELSE IF is_client_error(resp.code) THEN "4xx"
    ELSE "other"

\* fetch_one is called: it waits on the rate limiter.
FetchStart(c) ==
    /\ fcalls[c].pc = "idle"
    /\ fcalls' = [fcalls EXCEPT ![c].pc = "rate_limit"]
    /\ UNCHANGED <<max_retries, seen_hashes>>
    /\ UNCHANGED <<npmVars, scanVars, extractVars, browserVars, loopVars>>

\* rate_limiter.until_ready() returns; retries = 0, last_error = None.
FetchAdmit(c) ==
    /\ fcalls[c].pc = "rate_limit"
    /\ fcalls' = [fcalls EXCEPT ![c].pc = "loop",
                                ![c].admissions = @ + 1,
                                ![c].retries = 0]
    /\ UNCHANGED <<max_retries, seen_hashes>>
    /\ UNCHANGED <<npmVars, scanVars, extractVars, browserVars, loopVars>>

\* One iteration of the while loop up to its next suspension point.
FetchRequest(c) ==
    /\ fcalls[c].pc = "loop"
    /\ fcalls[c].retries <= max_retries
    /\ \E resp \in Responses :
        LET r    == do_fetch(resp)
            f    == fcalls[c]
            seen == [f EXCEPT !.requests = @ + 1,
                              !.first = IF f.requests = 0 THEN RespClass(resp) ELSE @,
                              !.allRetryable = @ /\ RespClass(resp) \in {"transport", "other"}]
        IN  fcalls' = [fcalls EXCEPT ![c] =
              CASE r.tag = "Ok" ->
                     [seen EXCEPT !.pc = "dedup_read", !.hash = hash_content(r.content)]
                [] r.tag = "Panic" ->
                     [seen EXCEPT !.pc = "panicked"]
                [] OTHER ->
                     IF ~should_retry(r)
                     THEN [seen EXCEPT !.pc = "done", !.result = NoFile]
                     ELSE IF f.retries + 1 <= max_retries
                          THEN [seen EXCEPT !.pc = "sleep", !.retries = @ + 1]
                          ELSE [seen EXCEPT !.pc = "loop", !.retries = @ + 1]]
    /\ UNCHANGED <<max_retries, seen_hashes>>
    /\ UNCHANGED <<npmVars, scanVars, extractVars, browserVars, loopVars>>

\* tokio::time::sleep(500 ms * retries) before the next attempt.
FetchSleep(c) ==
    /\ fcalls[c].pc = "sleep"
    /\ fcalls' = [fcalls EXCEPT ![c].pc = "loop",
                                ![c].sleeps = Append(@, backoff_ms(fcalls[c].retries))]
    /\ UNCHANGED <<max_retries, seen_hashes>>
    /\ UNCHANGED <<npmVars, scanVars, extractVars, browserVars, loopVars>>

\* The while condition fails: fetch_one returns None.
FetchGiveUp(c) ==
    /\ fcalls[c].pc = "loop"
    /\ fcalls[c].retries > max_retries
    /\ fcalls' = [fcalls EXCEPT ![c].pc = "done", ![c].result = NoFile]
    /\ UNCHANGED <<max_retries, seen_hashes>>
    /\ UNCHANGED <<npmVars, scanVars, extractVars, browserVars, loopVars>>

\* seen_hashes.read(): a duplicate body returns None.
FetchDedupRead(c) ==
    /\ fcalls[c].pc = "dedup_read"
    /\ fcalls' = [fcalls EXCEPT ![c] =
          IF fcalls[c].hash \in seen_hashes
          THEN [@ EXCEPT !.pc = "done", !.result = NoFile]
          ELSE [@ EXCEPT !.pc = "dedup_write"]]
    /\ UNCHANGED <<max_retries, seen_hashes>>
    /\ UNCHANGED <<npmVars, scanVars, extractVars, browserVars, loopVars>>

\* seen_hashes.write().insert(hash); fetch_one returns Some(JsFile).
FetchDedupWrite(c) ==
    /\ fcalls[c].pc = "dedup_write"
    /\ seen_hashes' = seen_hashes \cup {fcalls[c].hash}
    /\ fcalls' = [fcalls EXCEPT ![c].pc = "done",
                                ![c].result = [some |-> TRUE, content_hash |-> fcalls[c].hash]]
    /\ UNCHANGED max_retries
    /\ UNCHANGED <<npmVars, scanVars, extractVars, browserVars, loopVars>>

FetchEnded(c) == fcalls[c].pc \in {"done", "panicked"}

----------------------------------------------------------------------------
(* Package names are strings, modelled as sequences of characters.         *)

CharCode(c) ==
    CASE c = "-" -> 45
      [] c = "/" -> 47
      [] c = "@" -> 64
      [] c = "a" -> 97
      [] c = "b" -> 98
      [] c = "d" -> 100
      [] c = "f" -> 102
      [] c = "h" -> 104
      [] c = "l" -> 108
      [] c = "o" -> 111
      [] c = "s" -> 115
      [] c = "x" -> 120

\* str::starts_with
starts_with(s, prefix) ==
    /\ Len(prefix) <= Len(s)
    /\ \A i \in 1..Len(prefix) : s[i] = prefix[i]

\* String ordering (Ord for str: bytewise lexicographic).
str_lt(a, b) ==
    \E k \in 1..(Min(Len(a), Len(b)) + 1) :
        /\ \A i \in 1..(k - 1) : a[i] = b[i]
        /\ \/ (k = Len(a) + 1 /\ k <= Len(b))
           \/ (k <= Len(a) /\ k <= Len(b) /\ CharCode(a[k]) < CharCode(b[k]))

\* package_name.split('/').next(): the text before the first '/'.
first_segment(s) ==
    LET slashes == {i \in 1..Len(s) : s[i] = "/"}
    IN  IF slashes = {} THEN s
        ELSE SubSeq(s, 1, (CHOOSE i \in slashes : \A j \in slashes : i <= j) - 1)

\* Ord on the sort keys: usize for sort_by_key, str for sort_by on names.
key_lt(ord, a, b) == IF ord = "usize" THEN a < b ELSE str_lt(a, b)

\* slice::sort_by / sort_by_key: a stable sort.  keys[i] is the key of the
\* i-th element and ord names the order on keys; the result lists the
\* indices in sorted order.
\* rank[i] is the place of element i in the sorted order: after every
\* element with a smaller key and every earlier element with an equal key.
sort_ranks(keys, ord) ==
    SubSeq([i \in 1..Len(keys) |->
              1 + Cardinality({j \in 1..Len(keys) :
                    \/ key_lt(ord, keys[j], keys[i])
                    \/ (keys[j] = keys[i] /\ j < i)})],
           1, Len(keys))

inverse_order(rank) ==
    SubSeq([p \in 1..Len(rank) |-> CHOOSE i \in 1..Len(rank) : rank[i] = p],
           1, Len(rank))

stable_sort_order(keys, ord) == inverse_order(sort_ranks(keys, ord))

apply_order(seq, order) == [p \in 1..Len(seq) |-> seq[order[p]]]

sort_by_name(seq, keys) == apply_order(seq, stable_sort_order(keys, "str"))

sort_by_key(seq, keys) == apply_order(seq, stable_sort_order(keys, "usize"))

PkgNames == { <<"l", "o", "d", "a", "s", "h">>, <<"@", "a", "/", "f">> }

is_scoped(name) == starts_with(name, <<"@">>)

----------------------------------------------------------------------------
(* RegistryCache (registry/cache.rs)                                       *)

CACHE_TTL_SECS == 3600   \* Scanner::new passes 3600 to NpmChecker::new

TickSecs == 1800         \* the clock advances in steps of TickSecs seconds

MaxTicks == 2            \* the clock stops after MaxTicks steps

NoResult ==
    [variant |-> "None", name |-> <<>>, latest_version |-> "", scope |-> <<>>,
     error |-> ""]

NoEntry == [present |-> FALSE, result |-> NoResult, expires_at |-> 0, set_at |-> 0]

get_returns_expired(c, name, t) ==
    LET entry == c[name]
    IN  IF ~entry.present
        THEN [found |-> FALSE, hit |-> FALSE, result |-> NoResult]
        ELSE IF t <= entry.expires_at
             THEN [found |-> TRUE, hit |-> TRUE, result |-> entry.result]
             ELSE [found |-> TRUE, hit |-> FALSE, result |-> NoResult]

get_skips_errors(c, name, t) ==
    LET entry == c[name]
    IN  IF ~entry.present \/ entry.result.variant = "Error"
        THEN [found |-> FALSE, hit |-> FALSE, result |-> NoResult]
        ELSE IF t < entry.expires_at
             THEN [found |-> TRUE, hit |-> TRUE, result |-> entry.result]
             ELSE [found |-> TRUE, hit |-> FALSE, result |-> NoResult]

\* RegistryCache::get up to drop(entry): the lookup and the expiry test.
\* found /\ ~hit is the expired case, which goes on to cache.remove.
RegistryCache_get(c, name, t) ==
    LET entry == c[name]
    IN  IF ~entry.present
        THEN [found |-> FALSE, hit |-> FALSE, result |-> NoResult]
        ELSE IF t < entry.expires_at
             THEN [found |-> TRUE, hit |-> TRUE, result |-> entry.result]
             ELSE [found |-> TRUE, hit |-> FALSE, result |-> NoResult]

\* RegistryCache::get, the expired case: self.cache.remove(package_name).
RegistryCache_remove(c, name) == [c EXCEPT ![name] = NoEntry]

set_skips_errors(c, name, result, t) ==
    IF result.variant = "Error" THEN c
    ELSE [c EXCEPT ![name] =
            [present |-> TRUE, result |-> result,
             expires_at |-> t + CACHE_TTL_SECS, set_at |-> t]]

\* RegistryCache::set.  set_at is a ghost field: the time of the set.
RegistryCache_set(c, name, result, t) ==
    [c EXCEPT ![name] =
        [present |-> TRUE, result |-> result,
         expires_at |-> t + CACHE_TTL_SECS, set_at |-> t]]

----------------------------------------------------------------------------
(* NpmChecker (registry/npm.rs)                                            *)

Exists(name, version) ==
    [variant |-> "Exists", name |-> name, latest_version |-> version,
     scope |-> <<>>, error |-> ""]

NotFound(name) ==
    [variant |-> "NotFound", name |-> name, latest_version |-> "",
     scope |-> <<>>, error |-> ""]

ScopeNotClaimed(scope, name) ==
    [variant |-> "ScopeNotClaimed", name |-> name, latest_version |-> "",
     scope |-> scope, error |-> ""]

Error(name, error) ==
    [variant |-> "Error", name |-> name, latest_version |-> "",
     scope |-> <<>>, error |-> error]

\* Marker: check_scoped_package hands over to check_scope_ownership.
Cascade ==
    [variant |-> "Cascade", name |-> <<>>, latest_version |-> "", scope |-> <<>>,
     error |-> ""]

\* A JSON body as far as the code reads it: whether it parses, the top-level
\* fields it has, and the package names of its objects[] array.
Body(parses, fields, objects) ==
    [parses |-> parses, fields |-> fields, objects |-> objects]

NoBody == Body(FALSE, {}, {})

Resp(kind, code, body) == [kind |-> kind, code |-> code, body |-> body]

\* Responses to GET <registry>/<name>.
PkgResponses ==
    {Resp("transport", 0, NoBody), Resp("status", 404, NoBody),
     Resp("status", 500, NoBody), Resp("status", 200, NoBody),
     Resp("status", 200, Body(TRUE, {"name"}, {})),
     Resp("status", 200, Body(TRUE, {"name", "dist-tags.latest"}, {}))}

\* Responses to the user and the org checks.
OwnerResponses ==
    {Resp("transport", 0, NoBody), Resp("status", 404, NoBody),
     Resp("status", 404, Body(TRUE, {"ok=true"}, {})),
     Resp("status", 200, NoBody)}
    \cup {Resp("status", 200, Body(TRUE, f, {})) :
            f \in {{}, {"ok=true"}, {"ok=false"}, {"name"}, {"_id"}, {"error"}}}

SearchNames ==
    { <<"@", "a", "/", "x">>, <<"@", "a", "b", "/", "x">>, <<"@", "b", "/", "x">> }

\* Responses to the scope search.
SearchResponses ==
    {Resp("transport", 0, NoBody), Resp("status", 500, NoBody),
     Resp("status", 200, NoBody)}
    \cup {Resp("status", 200, Body(TRUE, {"objects"}, o)) : o \in SUBSET SearchNames}

\* info.dist_tags.and_then(|dt| dt.latest); "" stands for None.
latest_version(body) ==
    IF body.parses /\ "dist-tags.latest" \in body.fields THEN "1.0.0" ELSE ""

\* check_regular_package: the result for the response to the one GET.
check_regular_package(package_name, resp) ==
    IF resp.kind = "transport" THEN Error(package_name, "transport")
    ELSE IF is_success(resp.code) THEN Exists(package_name, latest_version(resp.body))
    ELSE IF resp.code = 404 THEN NotFound(package_name)
    ELSE Error(package_name, "HTTP")

scoped_unparsable_is_error(package_name, resp) ==
    IF resp.kind = "transport" THEN Error(package_name, "transport")
    ELSE IF is_success(resp.code)
         THEN IF resp.body.parses THEN Exists(package_name, latest_version(resp.body))
              ELSE Error(package_name, "parse")
    ELSE IF resp.code = 404 THEN Cascade
    ELSE Error(package_name, "HTTP")

\* check_scoped_package: the result for the response to the first GET, or
\* Cascade when it calls check_scope_ownership.
check_scoped_package(package_name, resp) ==
    IF resp.kind = "transport" THEN Error(package_name, "transport")
    ELSE IF is_success(resp.code) THEN Exists(package_name, latest_version(resp.body))
    ELSE IF resp.code = 404 THEN Cascade
    ELSE Error(package_name, "HTTP")

\* do_check: scoped names take the scoped path.
do_check(package_name, resp) ==
    IF starts_with(package_name, <<"@">>)
    THEN check_scoped_package(package_name, resp)
    ELSE check_regular_package(package_name, resp)

\* check_scope_ownership: the scope, and the early return when there is none.
scope_of(package_name) == first_segment(package_name)

scope_guard(package_name) ==
    LET scope == scope_of(package_name)
    IN  IF scope = <<>> \/ ~starts_with(scope, <<"@">>)
        THEN NotFound(package_name)
        ELSE NoResult

user_check_error_propagates(package_name, resp) ==
    IF resp.kind = "transport" THEN Error(package_name, "transport")
    ELSE IF /\ is_success(resp.code)
            /\ resp.body.parses
            /\ resp.body.fields \cap {"ok=true", "name", "_id"} # {}
         THEN NotFound(package_name)
         ELSE NoResult

\* Check 1: the user endpoint.  NotFound when it proves the scope claimed,
\* NoResult when the cascade goes on.
check_user(package_name, resp) ==
    IF /\ resp.kind = "status"
       /\ is_success(resp.code)
       /\ resp.body.parses
       /\ ( "ok=true" \in resp.body.fields
            \/ "name" \in resp.body.fields
            \/ "_id" \in resp.body.fields )
    THEN NotFound(package_name)
    ELSE NoResult

\* Check 2: the org endpoint.
check_org(package_name, resp) ==
    IF /\ resp.kind = "status"
       /\ is_success(resp.code)
       /\ resp.body.parses
       /\ "error" \notin resp.body.fields
    THEN NotFound(package_name)
    ELSE NoResult

search_any_object_matches(package_name, resp) ==
    IF /\ resp.kind = "status"
       /\ is_success(resp.code)
       /\ resp.body.parses
       /\ resp.body.objects # {}
    THEN NotFound(package_name)
    ELSE ScopeNotClaimed(scope_of(package_name), package_name)

\* Check 3: the scope search, and the fall-through to ScopeNotClaimed.
check_search(package_name, resp) ==
    LET scope == scope_of(package_name)
        scope_prefix == scope \o <<"/">>
    IN  IF /\ resp.kind = "status"
           /\ is_success(resp.code)
           /\ resp.body.parses
           /\ \E n \in resp.body.objects : starts_with(n, scope_prefix)
        THEN NotFound(package_name)
        ELSE ScopeNotClaimed(scope, package_name)

----------------------------------------------------------------------------
(* check_package calls and the registry half of process_captured_js        *)

MaxPkgs == 2     \* packages checked by one scan

MaxScans == 2    \* scans run by one Scanner (they share the cache)

should_report_all(npm_result) == TRUE

\* process_captured_js: the should_report match on finding.npm_result.
should_report(npm_result) ==
    CASE npm_result.variant = "ScopeNotClaimed" -> TRUE
      [] npm_result.variant = "NotFound" -> ~starts_with(npm_result.name, <<"@">>)
      [] npm_result.variant = "Exists" -> TRUE
      [] npm_result.variant = "Error" -> TRUE

report_in_completion_order(rs) ==
    SelectSeq(rs, LAMBDA pr : should_report(pr.npm_result))

\* process_captured_js: the loop over results and the final sort by name.
report(rs) ==
    LET kept == SelectSeq(rs, LAMBDA pr : should_report(pr.npm_result))
    IN  sort_by_name(kept, [i \in 1..Len(kept) |-> kept[i].package])

NoEvidence == [first |-> "none", user |-> "none", org |-> "none", search |-> "none"]

IdleCheck(name) ==
    [name |-> name, pc |-> "idle", result |-> NoResult, requests |-> 0,
     admissions |-> 0, hit |-> FALSE, began_at |-> 0, seen |-> NoEntry,
     ev |-> NoEvidence]

\* Ghost: what a cascade response shows, in the words of the specification.
Failed(resp) ==
    resp.kind = "transport" \/ ~is_success(resp.code) \/ ~resp.body.parses

UserProves(resp) ==
    ~Failed(resp) /\ resp.body.fields \cap {"ok=true", "name", "_id"} # {}

OrgProves(resp) == ~Failed(resp) /\ "error" \notin resp.body.fields

SearchProves(name, resp) ==
    /\ ~Failed(resp)
    /\ \E n \in resp.body.objects :
          starts_with(n, first_segment(name) \o <<"/">>)

Shows(proves, resp) ==
    IF proves THEN "proved" ELSE IF Failed(resp) THEN "failed" ELSE "noproof"

FirstClass(resp) ==
    IF resp.kind = "transport" THEN "transport"
    ELSE IF is_success(resp.code)
         THEN (IF resp.body.parses THEN "2xx" ELSE "2xx-unparsable")
    ELSE IF resp.code = 404 THEN "404"
    ELSE "other"

\* Instant::now() moves on.
Tick ==
    /\ now < MaxTicks * TickSecs
    /\ now' = now + TickSecs
    /\ UNCHANGED <<cache, ncalls, packages_to_check, results, findings, npc, scans,
                   skip_npm_check>>
    /\ UNCHANGED <<fetchVars, scanVars, extractVars, browserVars, loopVars>>

\* process_captured_js reaches the registry checks with the packages it
\* extracted: unique names, sorted by name (scanner.rs line 300).
NpmStartScan ==
    /\ npc \in {"idle", "done"}
    /\ scans < MaxScans
    /\ ~skip_npm_check
    /\ \E ps \in SeqsUpTo(PkgNames, MaxPkgs) :
         /\ \A i, j \in 1..Len(ps) : i # j => ps[i] # ps[j]
         /\ packages_to_check' = sort_by_name(ps, ps)
    /\ ncalls' = [i \in 1..Len(packages_to_check') |-> IdleCheck(packages_to_check'[i])]
    /\ results' = <<>>
    /\ findings' = <<>>
    /\ npc' = "checking"
    /\ UNCHANGED <<now, cache, scans, skip_npm_check>>
    /\ UNCHANGED <<fetchVars, scanVars, extractVars, browserVars, loopVars>>

\* skip_npm_check: no registry check, no findings.
NpmSkipScan ==
    /\ npc \in {"idle", "done"}
    /\ scans < MaxScans
    /\ skip_npm_check
    /\ \E ps \in SeqsUpTo(PkgNames, MaxPkgs) :
         /\ \A i, j \in 1..Len(ps) : i # j => ps[i] # ps[j]
         /\ packages_to_check' = sort_by_name(ps, ps)
    /\ ncalls' = <<>>
    /\ results' = <<>>
    /\ findings' = <<>>
    /\ npc' = "done"
    /\ scans' = scans + 1
    /\ UNCHANGED <<now, cache, skip_npm_check>>
    /\ UNCHANGED <<fetchVars, scanVars, extractVars, browserVars, loopVars>>

\* check_package returns `res` after do_check: cache.set, then the stream
\* yields (package, result).
Finish(i, call, res) ==
    /\ cache' = RegistryCache_set(cache, call.name, res, now)
    /\ ncalls' = [ncalls EXCEPT ![i] = [call EXCEPT !.pc = "done", !.result = res]]
    /\ results' = Append(results, [package |-> call.name, npm_result |-> res])

\* check_package: self.cache.get(&package.name).
CheckBegin(i) ==
    /\ npc = "checking"
    /\ i \in 1..Len(ncalls)
    /\ ncalls[i].pc = "idle"
    /\ LET call == ncalls[i]
           got  == RegistryCache_get(cache, call.name, now)
       IN  IF got.hit
           THEN /\ ncalls' = [ncalls EXCEPT ![i] =
                      [call EXCEPT !.pc = "done", !.result = got.result,
                                   !.hit = TRUE, !.ev.first = "hit",
                                   !.began_at = now, !.seen = cache[call.name]]]
                /\ results' = Append(results,
                      [package |-> call.name, npm_result |-> got.result])
           ELSE /\ ncalls' = [ncalls EXCEPT ![i] =
                      [call EXCEPT !.pc = IF got.found THEN "cache_remove"
                                          ELSE "rate_limit",
                                   !.began_at = now, !.seen = cache[call.name]]]
                /\ UNCHANGED results
    /\ UNCHANGED <<now, cache, packages_to_check, findings, npc, scans, skip_npm_check>>
    /\ UNCHANGED <<fetchVars, scanVars, extractVars, browserVars, loopVars>>

\* RegistryCache::get, expired entry: cache.remove, then None.
CheckCacheRemove(i) ==
    /\ npc = "checking"
    /\ i \in 1..Len(ncalls)
    /\ ncalls[i].pc = "cache_remove"
    /\ cache' = RegistryCache_remove(cache, ncalls[i].name)
    /\ ncalls' = [ncalls EXCEPT ![i].pc = "rate_limit"]
    /\ UNCHANGED <<now, packages_to_check, results, findings, npc, scans, skip_npm_check>>
    /\ UNCHANGED <<fetchVars, scanVars, extractVars, browserVars, loopVars>>

\* self.rate_limiter.until_ready().await
CheckAdmit(i) ==
    /\ npc = "checking"
    /\ i \in 1..Len(ncalls)
    /\ ncalls[i].pc = "rate_limit"
    /\ ncalls' = [ncalls EXCEPT ![i].pc = "get_pkg", ![i].admissions = @ + 1]
    /\ UNCHANGED <<now, cache, packages_to_check, results, findings, npc, scans,
                   skip_npm_check>>
    /\ UNCHANGED <<fetchVars, scanVars, extractVars, browserVars, loopVars>>

\* do_check: the GET of the package itself.
CheckGetPkg(i) ==
    /\ npc = "checking"
    /\ i \in 1..Len(ncalls)
    /\ ncalls[i].pc = "get_pkg"
    /\ \E resp \in PkgResponses :
        LET call == [ncalls[i] EXCEPT !.requests = @ + 1,
                                      !.ev.first = FirstClass(resp)]
            res  == do_check(call.name, resp)
            early == scope_guard(call.name)
        IN  IF res.variant # "Cascade"
            THEN Finish(i, call, res)
            ELSE IF early.variant # "None"
                 THEN Finish(i, call, early)
                 ELSE /\ ncalls' = [ncalls EXCEPT ![i] = [call EXCEPT !.pc = "user_check"]]
                      /\ UNCHANGED <<cache, results>>
    /\ UNCHANGED <<now, packages_to_check, findings, npc, scans, skip_npm_check>>
    /\ UNCHANGED <<fetchVars, scanVars, extractVars, browserVars, loopVars>>

\* check_scope_ownership, check 1.
CheckUser(i) ==
    /\ npc = "checking"
    /\ i \in 1..Len(ncalls)
    /\ ncalls[i].pc = "user_check"
    /\ \E resp \in OwnerResponses :
        LET call == [ncalls[i] EXCEPT !.requests = @ + 1,
                                      !.ev.user = Shows(UserProves(resp), resp)]
            res  == check_user(call.name, resp)
        IN  IF res.variant # "None"
            THEN Finish(i, call, res)
            ELSE /\ ncalls' = [ncalls EXCEPT ![i] = [call EXCEPT !.pc = "org_check"]]
                 /\ UNCHANGED <<cache, results>>
    /\ UNCHANGED <<now, packages_to_check, findings, npc, scans, skip_npm_check>>
    /\ UNCHANGED <<fetchVars, scanVars, extractVars, browserVars, loopVars>>

\* check_scope_ownership, check 2.
CheckOrg(i) ==
    /\ npc = "checking"
    /\ i \in 1..Len(ncalls)
    /\ ncalls[i].pc = "org_check"
    /\ \E resp \in OwnerResponses :
        LET call == [ncalls[i] EXCEPT !.requests = @ + 1,
                                      !.ev.org = Shows(OrgProves(resp), resp)]
            res  == check_org(call.name, resp)
        IN  IF res.variant # "None"
            THEN Finish(i, call, res)
            ELSE /\ ncalls' = [ncalls EXCEPT ![i] = [call EXCEPT !.pc = "search_check"]]
                 /\ UNCHANGED <<cache, results>>
    /\ UNCHANGED <<now, packages_to_check, findings, npc, scans, skip_npm_check>>
    /\ UNCHANGED <<fetchVars, scanVars, extractVars, browserVars, loopVars>>

\* check_scope_ownership, check 3 and the final ScopeNotClaimed.
CheckSearch(i) ==
    /\ npc = "checking"
    /\ i \in 1..Len(ncalls)
    /\ ncalls[i].pc = "search_check"
    /\ \E resp \in SearchResponses :
        LET call == [ncalls[i] EXCEPT !.requests = @ + 1,
                                      !.ev.search =
                                          Shows(SearchProves(ncalls[i].name, resp), resp)]
        IN  Finish(i, call, check_search(call.name, resp))
    /\ UNCHANGED <<now, packages_to_check, findings, npc, scans, skip_npm_check>>
    /\ UNCHANGED <<fetchVars, scanVars, extractVars, browserVars, loopVars>>

\* The stream is exhausted and its futures are gone: the findings loop and
\* the sort.
NpmReport ==
    /\ npc = "checking"
    /\ \A i \in 1..Len(ncalls) : ncalls[i].pc = "done"
    /\ findings' = report(results)
    /\ ncalls' = <<>>
    /\ npc' = "done"
    /\ scans' = scans + 1
    /\ UNCHANGED <<now, cache, packages_to_check, results, skip_npm_check>>
    /\ UNCHANGED <<fetchVars, scanVars, extractVars, browserVars, loopVars>>

----------------------------------------------------------------------------
(* Scanner::scan_multiple, scan_host_group, BrowserCapture::capture_multiple *)

RESTART_EVERY == 50   \* capture_multiple: const RESTART_EVERY

MaxTargets == 3       \* short input lists have up to MaxTargets URLs

ExtraPages == 2       \* the long input list has RESTART_EVERY + ExtraPages URLs

MaxParallel == 2      \* ScanConfig.parallel ranges over 0..MaxParallel

MaxFaults == 2        \* failures injected into the scan of a short list

\* A target as Url::parse sees it: host and port when it parses, and the
\* text that tells it from the other targets.
Url(parses, host, port, path) ==
    [parses |-> parses, scheme |-> "https", host |-> host, port |-> port,
     path |-> path]

\* The same with the scheme given: load_targets leaves http:// and https://
\* targets as they are.  port 0 stands for "no port in the URL".
UrlOf(scheme, host, port, path) ==
    [parses |-> TRUE, scheme |-> scheme, host |-> host, port |-> port,
     path |-> path]

UrlPool ==
    { Url(TRUE, "h1", 0, 1), Url(TRUE, "h1", 0, 2), Url(FALSE, "", 0, 1) }

LongList == [i \in 1..(RESTART_EVERY + ExtraPages) |-> Url(TRUE, "h1", 0, i)]

\* group_by_host: the key of one URL, "" (here <<>>) when it does not parse.
host_key_ignores_port(url) ==
    IF url.parses THEN <<url.scheme, "://", url.host, 0>> ELSE <<>>

host_key(url) ==
    IF url.parses THEN <<url.scheme, "://", url.host, url.port>> ELSE <<>>

RECURSIVE group_fold(_, _, _)
\* group_by_host: the loop over urls; acc lists (key, urls) in the order
\* the keys were first seen.
group_fold(urls, i, acc) ==
    IF i > Len(urls) THEN acc
    ELSE LET key == host_key(urls[i])
             at  == {k \in 1..Len(acc) : acc[k].key = key}
         IN  IF at = {}
             THEN group_fold(urls, i + 1,
                             Append(acc, [key |-> key, urls |-> <<urls[i]>>]))
             ELSE group_fold(urls, i + 1,
                             [acc EXCEPT ![CHOOSE k \in at : TRUE].urls =
                                             Append(@, urls[i])])

group_by_host(urls) == group_fold(urls, 1, <<>>)

\* scan_multiple: url_to_index, built by inserting (t, i) for i ascending,
\* so a repeated URL keeps its last index.  Indices are 1-based here.
url_to_index(ts, u) ==
    LET at == {i \in 1..Len(ts) : ts[i] = u}
    IN  IF at = {} THEN Len(ts) + 1     \* unwrap_or(usize::MAX)
        ELSE CHOOSE i \in at : \A j \in at : j <= i

RECURSIVE flatten(_)
flatten(ss) == IF ss = <<>> THEN <<>> ELSE Head(ss) \o flatten(Tail(ss))

\* scan_multiple: flatten, index, sort_by_key, strip the index.
reorder_flat(ts, flat) ==
    sort_by_key(flat,
                SubSeq([k \in 1..Len(flat) |-> url_to_index(ts, flat[k].target)],
                       1, Len(flat)))

reorder(ts, group_results) == reorder_flat(ts, flatten(group_results))

\* A capture result: Ok(files) or Err(e).
CapOk(url, files) == [url |-> url, ok |-> TRUE, files |-> files, err |-> ""]

CapErr(url, e) == [url |-> url, ok |-> FALSE, files |-> 0, err |-> e]

launch_failure_first_only(urls) ==
    IF urls = <<>> THEN <<>> ELSE <<CapErr(urls[1], "Browser launch failed")>>

\* capture_multiple: the initial launch failed, an error for every URL.
launch_failure(urls) ==
    [i \in 1..Len(urls) |-> CapErr(urls[i], "Browser launch failed")]

\* scan / scan_host_group + process_captured_js: the ScanResult of one
\* target.  process_captured_js returns Ok in every case; it passes `errors`
\* through.  capture_failed is a ghost field.
scan_result(cap) ==
    [target |-> cap.url,
     js_files_count |-> cap.files,
     errors |-> IF cap.ok THEN <<>> ELSE <<"Browser capture failed: " \o cap.err>>,
     capture_failed |-> ~cap.ok]

\* The scan_host_group future (or the single scan): its URLs, the state of
\* capture_multiple, and what it has produced.  temp_dir is the instance id
\* in the name of the user-data directory; current_handler_task is "none"
\* before the first spawn, then the state of the task the JoinHandle is of.
\* Ghost fields: launch_failed_from is the index of the first URL not yet
\* processed when a launch of capture_multiple first failed, 0 while none
\* has; live_browsers and live_tasks count the Browser handles not yet
\* dropped and the handler tasks not yet aborted; pages_on_browser counts
\* the captures started on the current browser.
NewGroup(urls, single, temp_dir) ==
    [urls |-> urls, single |-> single, pc |-> "launch", i |-> 1,
     temp_dir |-> temp_dir,
     current_browser |-> FALSE, current_handler_task |-> "none",
     pages_used |-> 0, restarted |-> FALSE,
     capture_results |-> <<>>, results |-> <<>>, launch_failed_from |-> 0,
     live_browsers |-> 0, live_tasks |-> 0, pages_on_browser |-> 0]

NoGroup ==
    [urls |-> <<>>, single |-> FALSE, pc |-> "none", i |-> 0,
     temp_dir |-> 0,
     current_browser |-> FALSE, current_handler_task |-> "none",
     pages_used |-> 0, restarted |-> FALSE,
     capture_results |-> <<>>, results |-> <<>>, launch_failed_from |-> 0,
     live_browsers |-> 0, live_tasks |-> 0, pages_on_browser |-> 0]

\* The futures buffer_unordered can hold at once.
Slots == 1..Max(MaxParallel, 1)

InFlight == {k \in Slots : groups[k].pc # "none"}

parallel_count_ignores_config == Max(MaxParallel, 1)

\* self.config.parallel.max(1)
parallel_count == Max(parallel, 1)

\* Failures are injected into the scan of a short list, MaxFaults of them.
\* In the scan of the long list the failures are those of the periodic
\* restart, which the length of the list bounds, and hard timeouts at the
\* URLs of LongTimeoutAt.
FaultAllowed == Len(targets) <= MaxTargets /\ faults < MaxFaults

LongTimeoutAt == {2, RESTART_EVERY}

TimeoutAllowed(g) ==
    /\ faults < MaxFaults
    /\ Len(targets) <= MaxTargets \/ g.i \in LongTimeoutAt

\* let instance_id = BROWSER_INSTANCE_COUNTER.fetch_add(1, SeqCst)
fetch_add ==
    /\ BROWSER_INSTANCE_COUNTER' = BROWSER_INSTANCE_COUNTER + 1
    /\ launched' = Append(launched, 0)

\* Browser::launch succeeded with user_data_dir(temp_dir).
launch_in(temp_dir) ==
    /\ launched' = [launched EXCEPT ![temp_dir + 1] = @ + 1]
    /\ UNCHANGED BROWSER_INSTANCE_COUNTER

\* scan_multiple with one target: scan(&targets[0]), which calls capture.
ScanSingle ==
    /\ spc = "start"
    /\ Len(targets) = 1
    /\ spc' = "single"
    /\ groups' = [groups EXCEPT ![1] = NewGroup(targets, TRUE, BROWSER_INSTANCE_COUNTER)]
    /\ fetch_add
    /\ UNCHANGED <<targets, parallel, host_groups, all_group_results, output, faults>>
    /\ UNCHANGED <<fetchVars, npmVars, extractVars, loopVars>>

\* scan_multiple otherwise: group_by_host and the stream of groups.
ScanGroup ==
    /\ spc = "start"
    /\ Len(targets) # 1
    /\ spc' = "running"
    /\ host_groups' = group_by_host(targets)
    /\ UNCHANGED <<targets, parallel, groups, all_group_results, output, faults>>
    /\ UNCHANGED <<fetchVars, npmVars, extractVars, browserVars, loopVars>>

\* buffer_unordered(parallel_count) starts the next group while fewer than
\* parallel_count are in flight; its capture_multiple takes an instance id.
GroupStart ==
    /\ spc = "running"
    /\ host_groups # <<>>
    /\ Cardinality(InFlight) < parallel_count
    /\ LET k == CHOOSE j \in Slots \ InFlight : \A m \in Slots \ InFlight : j <= m
       IN  groups' = [groups EXCEPT
                         ![k] = NewGroup(Head(host_groups).urls, FALSE,
                                         BROWSER_INSTANCE_COUNTER)]
    /\ fetch_add
    /\ host_groups' = Tail(host_groups)
    /\ UNCHANGED <<targets, parallel, spc, all_group_results, output, faults>>
    /\ UNCHANGED <<fetchVars, npmVars, extractVars, loopVars>>

Replace(k, h) == groups' = [groups EXCEPT ![k] = h]

kill_keeps_task(g) ==
    [g EXCEPT !.current_browser = FALSE,
              !.live_browsers = @ - (IF g.current_browser THEN 1 ELSE 0)]

\* current_browser.take(); current_handler_task.abort() -- and, at the end
\* of the call, drop(current_browser); current_handler_task.abort().
kill(g) ==
    [g EXCEPT !.current_browser = FALSE,
              !.live_browsers = @ - (IF g.current_browser THEN 1 ELSE 0),
              !.current_handler_task = IF @ = "none" THEN "none" ELSE "aborted",
              !.live_tasks = @ - (IF g.current_handler_task = "running" THEN 1 ELSE 0)]

\* current_handler_task = tokio::spawn(..); current_browser = Some(browser)
started(g) ==
    [g EXCEPT !.current_browser = TRUE,
              !.live_browsers = @ + 1,
              !.current_handler_task = "running",
              !.live_tasks = @ + 1,
              !.pages_on_browser = 0]

\* capture / capture_multiple: launch_browser succeeds.
CaptureLaunchOk(k) ==
    /\ groups[k].pc = "launch"
    /\ Replace(k, [started(groups[k]) EXCEPT !.pc = "loop"])
    /\ launch_in(groups[k].temp_dir)
    /\ UNCHANGED <<targets, parallel, spc, host_groups, all_group_results, output, faults>>
    /\ UNCHANGED <<fetchVars, npmVars, extractVars, loopVars>>

\* capture / capture_multiple: launch_browser fails.  capture returns Err;
\* capture_multiple returns an error for every URL.
CaptureLaunchFail(k) ==
    /\ groups[k].pc = "launch"
    /\ FaultAllowed
    /\ Replace(k, [groups[k] EXCEPT !.pc = "process", !.i = 1,
                            !.capture_results = launch_failure(groups[k].urls),
                            !.launch_failed_from = IF groups[k].single THEN 0 ELSE 1])
    /\ faults' = faults + 1
    /\ UNCHANGED <<targets, parallel, spc, host_groups, all_group_results, output>>
    /\ UNCHANGED <<fetchVars, npmVars, extractVars, browserVars, loopVars>>

\* The URL the for loop is at.
cur(g) == g.urls[g.i]

need_restart_from_second_batch(g) ==
    /\ ~g.single
    /\ ~g.restarted
    /\ g.pages_used > RESTART_EVERY
    /\ g.pages_used % RESTART_EVERY = 0

\* capture_multiple: pages_used > 0 && pages_used % RESTART_EVERY == 0, once
\* per loop iteration.  capture (the single scan) has no restart.
NeedRestart(g) ==
    /\ ~g.single
    /\ ~g.restarted
    /\ g.pages_used > 0
    /\ g.pages_used % RESTART_EVERY = 0

advance_drops_errors(g, cap) ==
    LET h == [g EXCEPT !.capture_results = IF cap.ok THEN Append(@, cap) ELSE @,
                       !.i = @ + 1,
                       !.restarted = FALSE]
    IN  IF g.i + 1 > Len(g.urls)
        THEN [kill(h) EXCEPT !.pc = "process"]
        ELSE [h EXCEPT !.pc = "loop"]

\* results.push((url, result)) and the next loop iteration, or after the
\* last one the cleanup and the return.
Advance(g, cap) ==
    LET h == [g EXCEPT !.capture_results = Append(@, cap),
                       !.i = @ + 1,
                       !.restarted = FALSE]
    IN  IF g.i + 1 > Len(g.urls)
        THEN [kill(h) EXCEPT !.pc = "process"]
        ELSE [h EXCEPT !.pc = "loop"]

\* capture_multiple: the periodic restart is due: the old browser is taken
\* and its handler task aborted, then launch_browser is awaited.
CaptureRestartKill(k) ==
    /\ groups[k].pc = "loop"
    /\ NeedRestart(groups[k])
    /\ Replace(k, [kill(groups[k]) EXCEPT !.pc = "restart"])
    /\ UNCHANGED <<targets, parallel, spc, host_groups, all_group_results, output, faults>>
    /\ UNCHANGED <<fetchVars, npmVars, extractVars, browserVars, loopVars>>

\* capture_multiple: the periodic restart succeeds; the loop body goes on
\* with the same URL.
CaptureRestartOk(k) ==
    /\ groups[k].pc = "restart"
    /\ Replace(k, [started(groups[k]) EXCEPT !.restarted = TRUE, !.pc = "loop"])
    /\ launch_in(groups[k].temp_dir)
    /\ UNCHANGED <<targets, parallel, spc, host_groups, all_group_results, output, faults>>
    /\ UNCHANGED <<fetchVars, npmVars, extractVars, loopVars>>

\* capture_multiple: the periodic restart fails: an error for this URL and
\* `continue`, with current_browser taken and pages_used unchanged.
CaptureRestartFail(k) ==
    /\ groups[k].pc = "restart"
    /\ Replace(k, Advance([groups[k] EXCEPT
                              !.launch_failed_from = IF @ = 0 THEN groups[k].i ELSE @],
                          CapErr(cur(groups[k]), "Browser restart failed")))
    /\ UNCHANGED <<targets, parallel, spc, host_groups, all_group_results, output, faults>>
    /\ UNCHANGED <<fetchVars, npmVars, extractVars, browserVars, loopVars>>

timeout_result_is_error(url) == CapErr(url, "hard timeout")

\* The result of a hard timeout: Ok(Vec::new()).
timeout_result(url) == CapOk(url, 0)

\* capture_js_files returns within the hard timeout: Ok(files) or Err.
CapturePage(k) ==
    /\ groups[k].pc = "loop"
    /\ ~NeedRestart(groups[k])
    /\ groups[k].current_browser
    /\ \E cap \in {CapOk(cur(groups[k]), 1), CapOk(cur(groups[k]), 0),
                   CapErr(cur(groups[k]), "capture error")} :
         /\ (cap.ok /\ cap.files = 1) \/ FaultAllowed
         /\ Replace(k, Advance([groups[k] EXCEPT !.pages_used = @ + 1,
                                                 !.pages_on_browser = @ + 1], cap))
         /\ faults' = IF cap.ok /\ cap.files = 1 THEN faults ELSE faults + 1
    /\ UNCHANGED <<targets, parallel, spc, host_groups, all_group_results, output>>
    /\ UNCHANGED <<fetchVars, npmVars, extractVars, browserVars, loopVars>>

\* The hard timeout (timeout_secs + 15) fires on capture_js_files.  capture
\* returns Ok(empty).  capture_multiple takes the browser, aborts its
\* handler task and awaits launch_browser.
CaptureTimeout(k) ==
    /\ groups[k].pc = "loop"
    /\ ~NeedRestart(groups[k])
    /\ groups[k].current_browser
    /\ TimeoutAllowed(groups[k])
    /\ LET g == [groups[k] EXCEPT !.pages_on_browser = @ + 1]
       IN  IF g.single
           THEN Replace(k, Advance([g EXCEPT !.pages_used = @ + 1], timeout_result(cur(g))))
           ELSE Replace(k, [kill(g) EXCEPT !.pc = "relaunch"])
    /\ faults' = faults + 1
    /\ UNCHANGED <<targets, parallel, spc, host_groups, all_group_results, output>>
    /\ UNCHANGED <<fetchVars, npmVars, extractVars, browserVars, loopVars>>

\* capture_multiple: the launch after a hard timeout succeeds: pages_used is
\* set to 0, Ok(empty) is pushed for the URL and pages_used incremented.
CaptureRelaunchOk(k) ==
    /\ groups[k].pc = "relaunch"
    /\ Replace(k, Advance([started(groups[k]) EXCEPT !.pages_used = 0 + 1],
                          timeout_result(cur(groups[k]))))
    /\ launch_in(groups[k].temp_dir)
    /\ UNCHANGED <<targets, parallel, spc, host_groups, all_group_results, output, faults>>
    /\ UNCHANGED <<fetchVars, npmVars, extractVars, loopVars>>

\* capture_multiple: the launch after a hard timeout fails: a warning, and
\* Ok(empty) is pushed all the same.
CaptureRelaunchFail(k) ==
    /\ groups[k].pc = "relaunch"
    /\ Replace(k, Advance([groups[k] EXCEPT
                              !.pages_used = @ + 1,
                              !.launch_failed_from = IF @ = 0 THEN groups[k].i + 1 ELSE @],
                          timeout_result(cur(groups[k]))))
    /\ UNCHANGED <<targets, parallel, spc, host_groups, all_group_results, output, faults>>
    /\ UNCHANGED <<fetchVars, npmVars, extractVars, browserVars, loopVars>>

\* capture_multiple: no browser after a failed relaunch.
CaptureNoBrowser(k) ==
    /\ groups[k].pc = "loop"
    /\ ~NeedRestart(groups[k])
    /\ ~groups[k].current_browser
    /\ Replace(k, Advance(groups[k],
                          CapErr(cur(groups[k]),
                                 "Browser not available after restart failure")))
    /\ UNCHANGED <<targets, parallel, spc, host_groups, all_group_results, output, faults>>
    /\ UNCHANGED <<fetchVars, npmVars, extractVars, browserVars, loopVars>>

\* process_captured_js for the next capture result: one ScanResult.
GroupProcess(k) ==
    /\ groups[k].pc = "process"
    /\ Len(groups[k].results) < Len(groups[k].capture_results)
    /\ LET next == groups[k].capture_results[Len(groups[k].results) + 1]
       IN  Replace(k, [groups[k] EXCEPT !.results = Append(@, scan_result(next))])
    /\ UNCHANGED <<targets, parallel, spc, host_groups, all_group_results, output, faults>>
    /\ UNCHANGED <<fetchVars, npmVars, extractVars, browserVars, loopVars>>

\* process_captured_js fetches a lazy chunk and do_fetch panics (a status
\* that is neither 2xx, 4xx nor 5xx): the panic unwinds scan_multiple.
GroupPanic(k) ==
    /\ groups[k].pc = "process"
    /\ Len(groups[k].results) < Len(groups[k].capture_results)
    /\ groups[k].capture_results[Len(groups[k].results) + 1].files > 0
    /\ FaultAllowed
    /\ spc' = "panicked"
    /\ groups' = [j \in Slots |-> NoGroup]
    /\ faults' = faults + 1
    /\ UNCHANGED <<targets, parallel, host_groups, all_group_results, output>>
    /\ UNCHANGED <<fetchVars, npmVars, extractVars, browserVars, loopVars>>

\* scan_host_group returns its results: the stream yields them.
GroupComplete(k) ==
    /\ spc = "running"
    /\ groups[k].pc = "process"
    /\ Len(groups[k].results) = Len(groups[k].capture_results)
    /\ groups' = [groups EXCEPT ![k] = NoGroup]
    /\ all_group_results' = Append(all_group_results, groups[k].results)
    /\ UNCHANGED <<targets, parallel, spc, host_groups, output, faults>>
    /\ UNCHANGED <<fetchVars, npmVars, extractVars, browserVars, loopVars>>

\* The single scan returns: vec![result].
SingleReturn(k) ==
    /\ spc = "single"
    /\ groups[k].pc = "process"
    /\ Len(groups[k].results) = Len(groups[k].capture_results)
    /\ groups' = [j \in Slots |-> NoGroup]
    /\ output' = groups[k].results
    /\ spc' = "returned"
    /\ UNCHANGED <<targets, parallel, host_groups, all_group_results, faults>>
    /\ UNCHANGED <<fetchVars, npmVars, extractVars, browserVars, loopVars>>

\* The stream is exhausted: re-order and return.
ScanReturn ==
    /\ spc = "running"
    /\ host_groups = <<>>
    /\ InFlight = {}
    /\ output' = reorder(targets, all_group_results)
    /\ spc' = "returned"
    /\ UNCHANGED <<targets, parallel, host_groups, groups, all_group_results, faults>>
    /\ UNCHANGED <<fetchVars, npmVars, extractVars, browserVars, loopVars>>

----------------------------------------------------------------------------
(* Package extraction: deduplicate_packages and its filters                *)

\* str::ends_with
ends_with(s, suffix) ==
    /\ Len(suffix) <= Len(s)
    /\ \A i \in 1..Len(suffix) : s[Len(s) - Len(suffix) + i] = suffix[i]

\* str::contains
contains(s, pat) ==
    \E k \in 0..(Len(s) - Len(pat)) : \A i \in 1..Len(pat) : s[k + i] = pat[i]

\* str::split(sep) for a one-character separator: the parts, in order.
RECURSIVE split(_, _)
split(s, sep) ==
    LET at == {i \in 1..Len(s) : s[i] = sep}
    IN  IF at = {} THEN <<s>>
        ELSE LET i == CHOOSE j \in at : \A m \in at : j <= m
             IN  <<SubSeq(s, 1, i - 1)>> \o split(SubSeq(s, i + 1, Len(s)), sep)

is_ascii_lowercase(c) ==
    c \in {"a", "b", "c", "d", "e", "f", "g", "h", "i", "j", "k", "l", "m",
           "n", "o", "p", "q", "r", "s", "t", "u", "v", "w", "x", "y", "z"}

is_ascii_digit(c) == c \in {"0", "1", "2", "3", "4", "5", "6", "7", "8", "9"}

is_ascii_hexdigit(c) ==
    is_ascii_digit(c) \/ c \in {"a", "b", "c", "d", "e", "f"}

\* The names below are lowercase, so to_lowercase is the identity on them
\* and is_ascii_alphabetic is is_ascii_lowercase.
is_ascii_alphabetic(c) == is_ascii_lowercase(c)

Str_lodash == <<"l", "o", "d", "a", "s", "h">>

Str_scoped == <<"@", "a", "/", "f">>

Str_short == <<"l", "a", "-", "b">>

\* The names the extractors found.
DedupNames == {Str_lodash, Str_scoped, Str_short}

\* The literal lists of is_likely_false_positive.  No entry of any list can
\* be spelled with the characters of DedupNames ("-", "/", "@" and the
\* letters a b d f h l o s), so each list is abridged to its first entries.
size_suffixes == { <<"-", "x", "s">>, <<"-", "s", "m">>, <<"-", "m", "d">>,
                   <<"-", "l", "g">>, <<"-", "x", "l">> }

id_suffixes == { <<"_", "i", "d">>, <<"_", "I", "D">>, <<"I", "d">> }

bundler_artifacts == { <<"l", "i", "s", "t", "-", "v">>, <<"l", "i", "s", "t", "-", "a">> }

false_positive_names == { <<"i", "d">>, <<"k", "e", "y">>, <<"n", "a", "m", "e">>,
                          <<"c", "a", "l", "l">> }

webpack_suffixes == { <<"-", "t", "g", "l">>, <<"-", "b", "t", "n">> }

webpack_patterns == { <<"u", "w", "-">>, <<"l", "e", "g", "-">>, <<".", "c", "o">> }
\* The last part of name.split('-').
last_part(name) == LET parts == split(name, "-") IN parts[Len(parts)]

\* parser::is_likely_false_positive, rule by rule in the order of the code.
is_likely_false_positive(name) ==
    IF /\ starts_with(name, <<"@">>)
       /\ \E suf \in size_suffixes : ends_with(name, suf)
       /\ contains(name, <<"-", "l", "i", "s", "t", "/">>)
       /\ contains(name, <<"-", "l", "i", "s", "t", "-">>)
    THEN TRUE
    ELSE IF starts_with(name, <<"@">>) THEN FALSE
    ELSE \/ Len(name) <= 2
         \/ \E suf \in id_suffixes : ends_with(name, suf)
         \/ \E artifact \in bundler_artifacts : starts_with(name, artifact)
         \/ /\ Len(name) <= 8
            /\ contains(name, <<"-">>)
            /\ Len(split(name, "-")) = 2
            /\ Len(last_part(name)) <= 2
            /\ \A i \in 1..Len(last_part(name)) : is_ascii_alphabetic(last_part(name)[i])
         \/ name \in false_positive_names
         \/ /\ Len(name) >= 6
            /\ \A i \in 1..Len(name) : is_ascii_hexdigit(name[i])
            /\ \E i \in 1..Len(name) : is_ascii_alphabetic(name[i])
            /\ \E i \in 1..Len(name) : is_ascii_digit(name[i])
         \/ /\ Len(name) >= 3
            /\ Len(name) <= 4
            /\ \/ \A i \in 1..Len(name) : is_ascii_lowercase(name[i])
               \/ /\ \E i \in 1..Len(name) : is_ascii_digit(name[i])
                  /\ \A i \in 1..Len(name) :
                        is_ascii_alphabetic(name[i]) \/ is_ascii_digit(name[i])
         \/ \E suf \in webpack_suffixes : ends_with(name, suf)
         \/ \E pat \in webpack_patterns : contains(name, pat)
         \/ /\ contains(name, <<"-">>)
            /\ Len(last_part(name)) >= 12
            /\ \A i \in 1..Len(last_part(name)) : is_ascii_hexdigit(last_part(name)[i])

\* A Package; source_url is the file it was found in.
Package(name, extraction_method, confidence) ==
    [name |-> name, extraction_method |-> extraction_method,
     source_url |-> "u1", confidence |-> confidence]

\* #[derive(PartialOrd, Ord)] on Confidence: Low < Medium < High.
confidence_ord(c) ==
    CASE c = "Low" -> 0
      [] c = "Medium" -> 1
      [] c = "High" -> 2

extraction_priority_flat(method) == 1

extraction_priority(method) ==
    CASE method \in {"Import", "Require", "DynamicImport"} -> 3
      [] method \in {"SourceMap", "WebpackChunk"} -> 2
      [] method \in {"Comment", "ErrorMessage", "Deobfuscate"} -> 1

should_skip_package(pkg) ==
    \/ is_likely_false_positive(pkg.name)
    \/ /\ pkg.extraction_method = "WebpackChunk"
       /\ ~contains(pkg.name, <<"-">>)
       /\ ~contains(pkg.name, <<"/">>)
       /\ Len(pkg.name) < 20
    \/ /\ pkg.extraction_method = "Comment"
       /\ ~contains(pkg.name, <<"-">>)
       /\ ~starts_with(pkg.name, <<"@">>)

\* deduplicate_packages: should_insert for pkg against the map.
should_insert(map, pkg) ==
    IF pkg.name \in DOMAIN map
    THEN LET existing == map[pkg.name]
         IN  \/ confidence_ord(pkg.confidence) > confidence_ord(existing.confidence)
             \/ /\ pkg.confidence = existing.confidence
                /\ extraction_priority(pkg.extraction_method)
                      > extraction_priority(existing.extraction_method)
    ELSE TRUE

\* HashMap::insert
map_insert(map, key, value) ==
    [k \in DOMAIN map \cup {key} |-> IF k = key THEN value ELSE map[k]]

\* deduplicate_packages: the body of the for loop for one package.
visit(map, pkg) ==
    IF should_skip_package(pkg) THEN map
    ELSE IF should_insert(map, pkg) THEN map_insert(map, pkg.name, pkg)
    ELSE map

MaxCands == 3    \* packages found before deduplication

\* The packages the extractors may find: an import, a require, a webpack
\* chunk or a comment, at two of the confidence levels.
DedupPool ==
    { Package(n, m, c) : n \in DedupNames,
                         m \in {"Import", "Require", "WebpackChunk", "Comment"},
                         c \in {"Medium", "High"} }

\* process_captured_js: all_packages.extend(packages) for a finished task.
PackagesExtend(p) ==
    /\ dpc = "collect"
    /\ p \notin all_packages
    /\ Cardinality(all_packages) < MaxCands
    /\ all_packages' = all_packages \cup {p}
    /\ UNCHANGED <<pending, by_name, dpc, arg, ret>>
    /\ UNCHANGED <<fetchVars, npmVars, scanVars, browserVars, loopVars>>

\* deduplicate_packages(all_packages) is called: by_name = HashMap::new().
DedupStart ==
    /\ dpc = "collect"
    /\ dpc' = "loop"
    /\ pending' = all_packages
    /\ by_name' = <<>>
    /\ UNCHANGED <<all_packages, arg, ret>>
    /\ UNCHANGED <<fetchVars, npmVars, scanVars, browserVars, loopVars>>

\* One iteration of `for pkg in packages`: a HashSet yields its elements in
\* an order of its own.
DedupVisit(p) ==
    /\ dpc = "loop"
    /\ p \in pending
    /\ pending' = pending \ {p}
    /\ by_name' = visit(by_name, p)
    /\ UNCHANGED <<all_packages, dpc, arg, ret>>
    /\ UNCHANGED <<fetchVars, npmVars, scanVars, browserVars, loopVars>>

\* by_name.into_values().collect()
DedupReturn ==
    /\ dpc = "loop"
    /\ pending = {}
    /\ dpc' = "returned"
    /\ ret' = [f |-> "deduplicate_packages",
               value |-> {by_name[n] : n \in DOMAIN by_name}]
    /\ UNCHANGED <<all_packages, pending, by_name, arg>>
    /\ UNCHANGED <<fetchVars, npmVars, scanVars, browserVars, loopVars>>

----------------------------------------------------------------------------
(* Calls of single functions                                               *)

MaxUrls == 3     \* group_by_host is given up to MaxUrls URLs

\* URLs on two hosts, two schemes and two ports, and two that do not parse.
GroupUrls ==
    { UrlOf("https", "h1", 0, 1), UrlOf("https", "h1", 0, 2),
      UrlOf("http", "h1", 0, 1), UrlOf("https", "h1", 8080, 1),
      UrlOf("https", "h2", 0, 1), Url(FALSE, "", 0, 1), Url(FALSE, "", 0, 2) }

\* group_by_host(urls) is called and returns.
GroupByHost ==
    /\ arg.f = "group_by_host"
    /\ ret = NoRet
    /\ ret' = [f |-> "group_by_host", value |-> group_by_host(arg.urls)]
    /\ UNCHANGED <<all_packages, pending, by_name, dpc, arg>>
    /\ UNCHANGED <<fetchVars, npmVars, scanVars, browserVars, loopVars>>

\* parser::is_likely_internal: the indicators looked for in the scope and
\* those looked for in the whole name.
scope_indicators ==
    { <<"i", "n", "t", "e", "r", "n", "a", "l">>, <<"p", "r", "i", "v", "a", "t", "e">>,
      <<"c", "o", "r", "p">>, <<"c", "o", "m", "p", "a", "n", "y">>, <<"t", "e", "a", "m">>,
      <<"o", "r", "g">>, <<"e", "n", "t", "e", "r", "p", "r", "i", "s", "e">> }

name_indicators ==
    { <<"i", "n", "t", "e", "r", "n", "a", "l">>, <<"p", "r", "i", "v", "a", "t", "e">>,
      <<"-", "i", "n", "t", "e", "r", "n", "a", "l">>, <<"-", "p", "r", "i", "v", "a", "t", "e">>,
      <<"_", "i", "n", "t", "e", "r", "n", "a", "l">>, <<"_", "p", "r", "i", "v", "a", "t", "e">> }

is_likely_internal(name) ==
    \/ /\ starts_with(name, <<"@">>)
       /\ \E indicator \in scope_indicators : contains(first_segment(name), indicator)
    \/ \E ind \in name_indicators : contains(name, ind)

notes_for(package) ==
    (IF is_likely_internal(package.name)
     THEN <<"Package name suggests internal/private usage">> ELSE <<>>)
    \o (IF package.confidence = "Low"
        THEN <<"Low confidence extraction - verify manually">> ELSE <<>>)

create_finding_not_found_is_high(package, npm_result) ==
    [package |-> package, npm_result |-> npm_result,
     severity |-> CASE npm_result.variant = "ScopeNotClaimed" -> "Critical"
                    [] npm_result.variant = "NotFound" -> "High"
                    [] npm_result.variant = "Exists" -> "Info"
                    [] npm_result.variant = "Error" -> "Low",
     notes |-> notes_for(package)]

\* Scanner::create_finding
create_finding(package, npm_result) ==
    [package |-> package, npm_result |-> npm_result,
     severity |-> CASE npm_result.variant = "ScopeNotClaimed" -> "Critical"
                    [] npm_result.variant = "NotFound" ->
                         IF is_likely_internal(package.name) THEN "High" ELSE "Medium"
                    [] npm_result.variant = "Exists" -> "Info"
                    [] npm_result.variant = "Error" -> "Low",
     notes |-> notes_for(package)]

\* Names with and without an indicator, in the scope and after it.
FindingNames ==
    { Str_lodash, Str_scoped,
      <<"@", "c", "o", "r", "p", "/", "f">>, <<"@", "a", "/", "c", "o", "r", "p">>,
      <<"a", "-", "i", "n", "t", "e", "r", "n", "a", "l">>,
      <<"@", "a", "/", "p", "r", "i", "v", "a", "t", "e">> }

FindingPackages ==
    { Package(n, m, c) : n \in FindingNames, m \in {"Import", "Comment"},
                         c \in {"Low", "High"} }

\* What check_package may have returned for the package.
ResultsFor(name) ==
    { Exists(name, "1.0.0"), Exists(name, ""), NotFound(name),
      ScopeNotClaimed(scope_of(name), name), Error(name, "HTTP") }

\* create_finding(package, result) is called and returns.
CreateFinding ==
    /\ arg.f = "create_finding"
    /\ ret = NoRet
    /\ ret' = [f |-> "create_finding", value |-> create_finding(arg.package, arg.npm_result)]
    /\ UNCHANGED <<all_packages, pending, by_name, dpc, arg>>
    /\ UNCHANGED <<fetchVars, npmVars, scanVars, browserVars, loopVars>>

\* Option<String>
None == [some |-> FALSE]

Some(v) == [some |-> TRUE, value |-> v]

\* str::trim, with " " for the whitespace.
trim(s) ==
    LET keep == {i \in 1..Len(s) : s[i] # " "}
    IN  IF keep = {} THEN <<>>
        ELSE SubSeq(s, CHOOSE i \in keep : \A j \in keep : i <= j,
                       CHOOSE i \in keep : \A j \in keep : i >= j)

\* str::strip_prefix(prefix).unwrap_or(s)
strip_prefix_or(s, prefix) ==
    IF starts_with(s, prefix) THEN SubSeq(s, Len(prefix) + 1, Len(s)) ELSE s

\* parser::is_node_builtin: the BUILTINS list, whole.
BUILTINS ==
    {
      <<"a", "s", "s", "e", "r", "t">>,
      <<"a", "s", "y", "n", "c", "_", "h", "o", "o", "k", "s">>,
      <<"b", "u", "f", "f", "e", "r">>,
      <<"c", "h", "i", "l", "d", "_", "p", "r", "o", "c", "e", "s", "s">>,
      <<"c", "l", "u", "s", "t", "e", "r">>,
      <<"c", "o", "n", "s", "o", "l", "e">>,
      <<"c", "o", "n", "s", "t", "a", "n", "t", "s">>,
      <<"c", "r", "y", "p", "t", "o">>, <<"d", "g", "r", "a", "m">>,
      <<"d", "n", "s">>, <<"d", "o", "m", "a", "i", "n">>,
      <<"e", "v", "e", "n", "t", "s">>, <<"f", "s">>, <<"h", "t", "t", "p">>,
      <<"h", "t", "t", "p", "2">>, <<"h", "t", "t", "p", "s">>,
      <<"i", "n", "s", "p", "e", "c", "t", "o", "r">>,
      <<"m", "o", "d", "u", "l", "e">>, <<"n", "e", "t">>, <<"o", "s">>,
      <<"p", "a", "t", "h">>,
      <<"p", "e", "r", "f", "_", "h", "o", "o", "k", "s">>,
      <<"p", "r", "o", "c", "e", "s", "s">>,
      <<"p", "u", "n", "y", "c", "o", "d", "e">>,
      <<"q", "u", "e", "r", "y", "s", "t", "r", "i", "n", "g">>,
      <<"r", "e", "a", "d", "l", "i", "n", "e">>, <<"r", "e", "p", "l">>,
      <<"s", "t", "r", "e", "a", "m">>,
      <<"s", "t", "r", "i", "n", "g", "_", "d", "e", "c", "o", "d", "e", "r">>,
      <<"s", "y", "s">>, <<"t", "i", "m", "e", "r", "s">>, <<"t", "l", "s">>,
      <<"t", "r", "a", "c", "e", "_", "e", "v", "e", "n", "t", "s">>,
      <<"t", "t", "y">>, <<"u", "r", "l">>, <<"u", "t", "i", "l">>,
      <<"v", "8">>, <<"v", "m">>, <<"w", "a", "s", "i">>,
      <<"w", "o", "r", "k", "e", "r", "_", "t", "h", "r", "e", "a", "d", "s">>,
      <<"z", "l", "i", "b">> }

is_node_builtin(name) == strip_prefix_or(name, <<"n", "o", "d", "e", ":">>) \in BUILTINS

\* parser::is_valid_package_name
is_valid_package_name(name) ==
    /\ ~(name = <<>> \/ Len(name) > 214)
    /\ ~(starts_with(name, <<".">>) \/ starts_with(name, <<"_">>))
    /\ \A i \in 1..Len(name) :
          \/ is_ascii_lowercase(name[i])
          \/ is_ascii_digit(name[i])
          \/ name[i] \in {"-", "_", "."}

\* parser::is_valid_scope
is_valid_scope(scope) ==
    /\ starts_with(scope, <<"@">>)
    /\ LET name == SubSeq(scope, 2, Len(scope))
       IN  /\ ~(name = <<>> \/ Len(name) > 214)
           /\ \A i \in 1..Len(name) :
                 \/ is_ascii_lowercase(name[i])
                 \/ is_ascii_digit(name[i])
                 \/ name[i] \in {"-", "_"}

\* parser::normalize_package_name.  splitn(3, '/') and split('/') agree on
\* the first two parts, the only ones read.
normalize_package_name(name) ==
    LET trimmed == trim(name)
    IN  IF trimmed = <<>> THEN None
        ELSE IF starts_with(trimmed, <<".">>) \/ starts_with(trimmed, <<"/">>) THEN None
        ELSE IF is_node_builtin(trimmed) THEN None
        ELSE IF starts_with(trimmed, <<"@">>)
             THEN LET parts == split(trimmed, "/")
                  IN  IF Len(parts) >= 2
                      THEN IF ~is_valid_scope(parts[1]) THEN None
                           ELSE IF ~is_valid_package_name(parts[2]) THEN None
                           ELSE Some(parts[1] \o <<"/">> \o parts[2])
                      ELSE None
        ELSE LET package_name == split(trimmed, "/")[1]
             IN  IF ~is_valid_package_name(package_name) THEN None
                 ELSE Some(package_name)

\* Raw names as the extractors capture them: what stands before the name,
\* the name, and what follows it.
RawPrefixes == { <<>>, <<"n", "o", "d", "e", ":">>, <<" ">>, <<"@", "a", "/">>, <<".", "/">> }

RawBases == { <<"f", "s">>, Str_lodash, <<"h", "t", "t", "p", "2">>, <<"F", "s">>,
              <<"_", "x">>, <<"p", "a", "t", "h">> }

RawSuffixes == { <<>>, <<"/", "p", "r", "o", "m", "i", "s", "e", "s">>, <<"/", "f", "p">>, <<" ">> }

RawNames == { p \o b \o x : p \in RawPrefixes, b \in RawBases, x \in RawSuffixes }

\* normalize_package_name(name) is called and returns.
NormalizePackageName ==
    /\ arg.f = "normalize_package_name"
    /\ ret = NoRet
    /\ ret' = [f |-> "normalize_package_name", value |-> normalize_package_name(arg.name)]
    /\ UNCHANGED <<all_packages, pending, by_name, dpc, arg>>
    /\ UNCHANGED <<fetchVars, npmVars, scanVars, browserVars, loopVars>>

----------------------------------------------------------------------------
(* parser::filters: should_filter_package and its nine filters            *)

\* str::find: the position (from 1) of the first occurrence, 0 for None.
find(s, pat) ==
    LET at == {k \in 1..(Len(s) - Len(pat) + 1) : \A i \in 1..Len(pat) : s[k + i - 1] = pat[i]}
    IN  IF at = {} THEN 0 ELSE CHOOSE k \in at : \A j \in at : k <= j

UI_PREFIXES ==
    {
      <<"c", "a", "r", "d", "-">>, <<"b", "u", "t", "t", "o", "n", "-">>,
      <<"m", "o", "d", "a", "l", "-">>, <<"f", "o", "r", "m", "-">>,
      <<"i", "n", "p", "u", "t", "-">>, <<"n", "a", "v", "-">>,
      <<"h", "e", "a", "d", "e", "r", "-">>,
      <<"f", "o", "o", "t", "e", "r", "-">>, <<"m", "e", "n", "u", "-">>,
      <<"d", "r", "o", "p", "d", "o", "w", "n", "-">>,
      <<"t", "a", "b", "l", "e", "-">>, <<"l", "i", "s", "t", "-">>,
      <<"i", "t", "e", "m", "-">>, <<"i", "c", "o", "n", "-">>,
      <<"b", "a", "d", "g", "e", "-">>, <<"p", "a", "n", "e", "l", "-">>,
      <<"w", "i", "d", "g", "e", "t", "-">>,
      <<"c", "o", "n", "t", "a", "i", "n", "e", "r", "-">>,
      <<"w", "r", "a", "p", "p", "e", "r", "-">>,
      <<"d", "i", "s", "c", "l", "o", "s", "u", "r", "e", "-">>,
      <<"a", "c", "c", "o", "r", "d", "i", "o", "n", "-">>,
      <<"t", "a", "b", "-">>, <<"d", "i", "a", "l", "o", "g", "-">>,
      <<"t", "o", "o", "l", "t", "i", "p", "-">>,
      <<"p", "o", "p", "o", "v", "e", "r", "-">>,
      <<"a", "l", "e", "r", "t", "-">>,
      <<"b", "a", "n", "n", "e", "r", "-">>,
      <<"v", "e", "n", "d", "o", "r", "-">>,
      <<"d", "a", "s", "h", "b", "o", "a", "r", "d", "-">>,
      <<"p", "r", "o", "f", "i", "l", "e", "-">>,
      <<"g", "r", "o", "u", "p", "-">> }

UI_SUFFIXES ==
    {
      <<"-", "c", "o", "n", "t", "a", "i", "n", "e", "r">>,
      <<"-", "w", "r", "a", "p", "p", "e", "r">>,
      <<"-", "c", "o", "m", "p", "o", "n", "e", "n", "t">>,
      <<"-", "w", "i", "d", "g", "e", "t">>,
      <<"-", "p", "a", "n", "e", "l">>,
      <<"-", "s", "e", "c", "t", "i", "o", "n">>,
      <<"-", "g", "r", "o", "u", "p">>, <<"-", "b", "o", "x">>,
      <<"-", "a", "r", "e", "a">>, <<"-", "b", "a", "c", "k">>,
      <<"-", "f", "r", "o", "n", "t">>, <<"-", "i", "m", "a", "g", "e">>,
      <<"-", "n", "a", "m", "e">>,
      <<"-", "c", "a", "t", "e", "g", "o", "r", "i", "e", "s">>,
      <<"-", "l", "o", "c", "a", "t", "i", "o", "n">>,
      <<"-", "c", "o", "n", "t", "a", "c", "t">>,
      <<"-", "d", "e", "t", "a", "i", "l", "s">>,
      <<"-", "h", "e", "a", "d", "i", "n", "g">> }

is_likely_css_class(package_name) ==
    \/ contains(package_name, <<"-", "-">>)
    \/ contains(package_name, <<"_", "_">>)
    \/ \E prefix \in UI_PREFIXES : starts_with(package_name, prefix)
    \/ \E suffix \in UI_SUFFIXES : ends_with(package_name, suffix)

REGEX_FLAGS ==
    {
      <<"/", "g">>, <<"/", "i">>, <<"/", "m">>, <<"/", "g", "i">>,
      <<"/", "g", "m">>, <<"/", "i", "m">> }

is_regex_pattern(package_name) == \E flag \in REGEX_FLAGS : ends_with(package_name, flag)

BUNDLER_PREFIXES ==
    {
      <<"@", "p", "l", "a", "y", "w", "r", "i", "_">>,
      <<"@", "s", "w", "_">>, <<"@", "p", "a", "r", "c", "e", "l", "_">>,
      <<"@", "t", "u", "r", "b", "o", "_">>,
      <<"@", "p", "n", "p", "m", "_">>, <<"@", "v", "i", "t", "e", "_">>,
      <<"@", "e", "s", "b", "u", "i", "l", "d", "_">> }

is_bundler_artifact(package_name) ==
    \/ /\ contains(package_name, <<"_">>)
       /\ LET parts == split(package_name, "_")
          IN  /\ Len(parts) >= 2
              /\ \E k \in 2..Len(parts) :
                    /\ Len(parts[k]) >= 32
                    /\ \A i \in 1..Len(parts[k]) : is_ascii_hexdigit(parts[k][i])
    \/ \E prefix \in BUNDLER_PREFIXES : starts_with(package_name, prefix)

OBFUSCATION_PATTERNS ==
    {
      <<"i", "c", "j", "s", "n">>, <<"i", "p", "j", "s", "n">>,
      <<"w", "-", "p", "a", "t", "t", "e", "r", "n", "s">>,
      <<"t", "m", "x", "_">>, <<"f", "p", "_">>, <<"d", "f", "p", "_">>,
      <<"t", "h", "r", "e", "a", "t", "-">>,
      <<"i", "m", "p", "e", "r", "v", "a", "-">>,
      <<"i", "n", "c", "a", "p", "s", "u", "l", "a", "-">> }

\* The names tested are lowercase, so to_ascii_lowercase leaves them alone.
vowel_count(package_name) ==
    Cardinality({i \in 1..Len(package_name) : package_name[i] \in {"a", "e", "i", "o", "u"}})

is_obfuscation_artifact(package_name) ==
    \/ /\ starts_with(package_name, <<"0", "x">>)
       /\ \A i \in 3..Len(package_name) : is_ascii_hexdigit(package_name[i])
    \/ \E pattern \in OBFUSCATION_PATTERNS : contains(package_name, pattern)
    \/ /\ Len(package_name) <= 5
       /\ ~contains(package_name, <<"/">>)
       /\ vowel_count(package_name) <= 1

URL_INDICATORS ==
    {
      <<"h", "t", "t", "p", ":", "/", "/">>,
      <<"h", "t", "t", "p", "s", ":", "/", "/">>,
      <<"f", "t", "p", ":", "/", "/">>, <<".", "c", "o", "m", "/">>,
      <<".", "g", "o", "v", "/">>, <<".", "o", "r", "g", "/">>,
      <<".", "e", "d", "u", "/">>, <<".", "n", "e", "t", "/">>,
      <<".", "i", "o", "/">>, <<".", "c", "o", "/">>, <<".", "p", "d", "f">>,
      <<".", "h", "t", "m", "l">>, <<".", "x", "m", "l">>,
      <<".", "j", "s", "o", "n">> }

\* source_context is None for names mined from sourcesContent.
is_url_path_component(package_name, source_context) ==
    /\ source_context.some
    /\ LET context == source_context.value
           pkg_pos == find(context, package_name)
       IN  /\ \E indicator \in URL_INDICATORS : contains(context, indicator)
           /\ pkg_pos # 0
           /\ LET context_slice == SubSeq(context, Max(pkg_pos - 100, 1), pkg_pos - 1)
              IN  /\ \E url_ind \in URL_INDICATORS : contains(context_slice, url_ind)
                  /\ ~contains(context_slice, <<"w", "e", "b", "p", "a", "c", "k", ":", "/", "/">>)
                  /\ ~contains(context_slice, <<"n", "o", "d", "e", "_", "m", "o", "d", "u", "l", "e", "s">>)

SERVICE_CDNS ==
    {
      <<"o", "s", "a", "n", "o", ".", "c", "o", "m">>,
      <<"c", "a", "r", "r", "o", "t", "q", "u", "e", "s", "t", ".", "i", "o">>,
      <<"n", "e", "w", "r", "e", "l", "i", "c", ".", "c", "o", "m">>,
      <<"g", "o", "o", "g", "l", "e", "-", "a", "n", "a", "l", "y", "t", "i", "c", "s", ".", "c", "o", "m">>,
      <<"g", "o", "o", "g", "l", "e", "t", "a", "g", "m", "a", "n", "a", "g", "e", "r", ".", "c", "o", "m">>,
      <<"y", "a", "n", "d", "e", "x", ".", "r", "u">>,
      <<"y", "a", "n", "d", "e", "x", ".", "n", "e", "t">>,
      <<"s", "e", "g", "m", "e", "n", "t", ".", "c", "o", "m">>,
      <<"i", "n", "t", "e", "r", "c", "o", "m", ".", "i", "o">>,
      <<"z", "e", "n", "d", "e", "s", "k", ".", "c", "o", "m">>,
      <<"h", "u", "b", "s", "p", "o", "t", ".", "c", "o", "m">>,
      <<"h", "o", "t", "j", "a", "r", ".", "c", "o", "m">>,
      <<"a", "m", "p", "l", "i", "t", "u", "d", "e", ".", "c", "o", "m">>,
      <<"m", "i", "x", "p", "a", "n", "e", "l", ".", "c", "o", "m">> }

SERVICE_PATTERNS ==
    {
      <<"c", "a", "r", "r", "o", "t", "-", "q", "u", "e", "s", "t">>,
      <<"n", "e", "w", "r", "e", "l", "i", "c", "-">>,
      <<"g", "o", "o", "g", "l", "e", "-", "t", "a", "g", "m", "a", "n", "a", "g", "e", "r">>,
      <<"y", "a", "n", "d", "e", "x", "-", "a", "n", "a", "l", "y", "t", "i", "c", "s">>,
      <<"i", "n", "t", "e", "r", "c", "o", "m", "-">>,
      <<"z", "e", "n", "d", "e", "s", "k", "-">>,
      <<"h", "o", "t", "j", "a", "r", "-">>,
      <<"a", "m", "p", "l", "i", "t", "u", "d", "e", "-">>,
      <<"m", "i", "x", "p", "a", "n", "e", "l", "-">> }

is_service_integration(package_name, source_url) ==
    \/ source_url.some /\ \E cdn \in SERVICE_CDNS : contains(source_url.value, cdn)
    \/ \E pattern \in SERVICE_PATTERNS : contains(package_name, pattern)

I18N_INDICATORS ==
    {
      <<"s", "e", "o", "_", "t", "e", "x", "t", "s", "@">>,
      <<"i", "1", "8", "n", "@">>, <<"t", "@">>,
      <<"t", "r", "a", "n", "s", "l", "a", "t", "e", "@">>,
      <<"l", "o", "c", "a", "l", "e", "@">>, <<"l", "a", "n", "g", "@">>,
      <<"m", "e", "s", "s", "a", "g", "e", "s", "@">>,
      <<"s", "t", "r", "i", "n", "g", "s", "@">>,
      <<"_", "t", "e", "x", "t", "s", "@">>,
      <<"_", "l", "a", "b", "e", "l", "s", "@">> }

I18N_SCOPES ==
    {
      <<"@", "s", "e", "o", "_", "t", "a", "g", "s", "/">>,
      <<"@", "i", "1", "8", "n", "/">>,
      <<"@", "l", "o", "c", "a", "l", "e", "/">>,
      <<"@", "t", "r", "a", "n", "s", "l", "a", "t", "i", "o", "n", "s", "/">> }

is_i18n_key(package_name, source_context) ==
    \/ /\ source_context.some
       /\ \E indicator \in I18N_INDICATORS : contains(source_context.value, indicator)
    \/ \E scope \in I18N_SCOPES : starts_with(package_name, scope)

ODOO_SCOPES ==
    {
      <<"@", "w", "e", "b", "/">>,
      <<"@", "w", "e", "b", "_", "t", "o", "u", "r", "/">>,
      <<"@", "o", "d", "o", "o", "/">>, <<"@", "m", "a", "i", "l", "/">>,
      <<"@", "p", "o", "r", "t", "a", "l", "/">>,
      <<"@", "w", "e", "b", "s", "i", "t", "e", "/">>,
      <<"@", "p", "o", "i", "n", "t", "_", "o", "f", "_", "s", "a", "l", "e", "/">>,
      <<"@", "p", "o", "s", "/">>, <<"@", "s", "t", "o", "c", "k", "/">>,
      <<"@", "a", "c", "c", "o", "u", "n", "t", "/">>,
      <<"@", "s", "a", "l", "e", "/">>,
      <<"@", "p", "u", "r", "c", "h", "a", "s", "e", "/">>,
      <<"@", "c", "r", "m", "/">>, <<"@", "h", "r", "/">>,
      <<"@", "p", "r", "o", "j", "e", "c", "t", "/">>,
      <<"@", "a", "u", "t", "h", "_">> }

is_odoo_module(package_name, source_context, source_url) ==
    \/ source_url.some /\ contains(source_url.value, <<"/", "w", "e", "b", "/", "a", "s", "s", "e", "t", "s", "/">>)
    \/ /\ source_context.some
       /\ contains(source_context.value, <<"o", "d", "o", "o", ".", "d", "e", "f", "i", "n", "e">>)
    \/ \E scope \in ODOO_SCOPES : starts_with(package_name, scope)
    \/ /\ starts_with(package_name, <<"@">>)
       /\ contains(package_name, <<"_">>)
       /\ LET slash == find(package_name, <<"/">>)
              scope_end == IF slash = 0 THEN Len(package_name) ELSE slash - 1
              scope == SubSeq(package_name, 2, scope_end)
          IN  Cardinality({i \in 1..Len(scope) : scope[i] = "_"}) >= 2

\* filters::should_filter_package: TRUE when the name is to be dropped.
should_filter_package(package_name, source_context, source_url) ==
    \/ package_name = <<"n", "o", "d", "e", "_", "m", "o", "d", "u", "l", "e", "s">>
    \/ starts_with(package_name, <<"n", "o", "d", "e", "_", "m", "o", "d", "u", "l", "e", "s", "_">>)
    \/ starts_with(package_name, <<"n", "o", "d", "e", "_", "m", "o", "d", "u", "l", "e", "s", "/">>)
    \/ is_likely_css_class(package_name)
    \/ is_regex_pattern(package_name)
    \/ is_bundler_artifact(package_name)
    \/ is_obfuscation_artifact(package_name)
    \/ is_url_path_component(package_name, source_context)
    \/ is_service_integration(package_name, source_url)
    \/ is_i18n_key(package_name, source_context)
    \/ is_odoo_module(package_name, source_context, source_url)

----------------------------------------------------------------------------
(* SourceMapParser::parse                                                  *)

Str_node_modules == <<"n", "o", "d", "e", "_", "m", "o", "d", "u", "l", "e", "s", "/">>

Str_packages == <<"p", "a", "c", "k", "a", "g", "e", "s", "/">>

\* The text after the first occurrence of marker (which occurs in path).
after_first(path, marker) == SubSeq(path, find(path, marker) + Len(marker), Len(path))

\* strip_prefix("webpack:///").or_else(strip_prefix("webpack://")).unwrap_or(source)
strip_webpack(source) ==
    IF starts_with(source, <<"w", "e", "b", "p", "a", "c", "k", ":", "/", "/", "/">>)
    THEN SubSeq(source, 12, Len(source))
    ELSE IF starts_with(source, <<"w", "e", "b", "p", "a", "c", "k", ":", "/", "/">>)
    THEN SubSeq(source, 11, Len(source))
    ELSE source

\* str::trim_start_matches('/')
trim_start_slashes(segment) ==
    LET keep == {i \in 1..Len(segment) : segment[i] # "/"}
    IN  IF keep = {} THEN <<>>
        ELSE SubSeq(segment, CHOOSE i \in keep : \A j \in keep : i <= j, Len(segment))

\* SourceMapParser::extract_package_from_path_segment
extract_package_from_path_segment(seg) ==
    LET segment == trim_start_slashes(seg)
        parts == split(segment, "/")
    IN  IF starts_with(segment, <<"@">>)
        THEN IF Len(parts) >= 2
             THEN normalize_package_name(parts[1] \o <<"/">> \o parts[2])
             ELSE None
        ELSE normalize_package_name(parts[1])

\* A Package mined from a source map.
SourceMapPackage(name, source_url, confidence) ==
    [Package(name, "SourceMap", confidence) EXCEPT !.source_url = source_url]

\* The name seen in a segment of path, passed through the filters: the
\* packages inserted by one branch of extract_packages_from_path.
mined(segment, path, source_url, confidence) ==
    LET pkg_name == extract_package_from_path_segment(segment)
    IN  IF pkg_name.some /\ ~should_filter_package(pkg_name.value, Some(path), Some(source_url))
        THEN {SourceMapPackage(pkg_name.value, source_url, confidence)}
        ELSE {}

\* SourceMapParser::extract_packages_from_path; None is the empty set, as
\* parse only extends its set with the result.
extract_packages_from_path(source, source_url) ==
    LET path == strip_webpack(source)
    IN  IF contains(path, Str_node_modules)
        THEN mined(after_first(path, Str_node_modules), path, source_url, "High")
        ELSE IF contains(path, Str_packages)
        THEN mined(after_first(path, Str_packages), path, source_url, "Low")
        ELSE IF starts_with(path, <<"@">>) \/ starts_with(path, <<"~", "/">>)
        THEN mined(strip_prefix_or(path, <<"~", "/">>), path, source_url, "Medium")
        ELSE {}

\* One line of an embedded source: the text before a require(...), from or
\* import, and the quoted name that follows it.
Line(before, raw) == [before |-> before, raw |-> raw]

\* The three patterns capture a quoted name that is not empty, does not
\* start with a quote, "." or "/" and holds no quote.
captured(line) ==
    /\ line.raw # <<>>
    /\ line.raw[1] \notin {"\"", "'", ".", "/"}
    /\ \A i \in 1..Len(line.raw) : line.raw[i] \notin {"\"", "'"}

\* SourceMapParser::extract_packages_from_source_content: the packages it
\* inserts.
extract_packages_from_source_content(content, source_url) ==
    UNION { LET line == content[k]
                line_prefix == trim(line.before)
                pkg_name == normalize_package_name(line.raw)
            IN  IF /\ captured(line)
                   /\ ~(starts_with(line_prefix, <<"/", "/">>) \/ starts_with(line_prefix, <<"*">>))
                   /\ pkg_name.some
                   /\ ~should_filter_package(pkg_name.value, None, Some(source_url))
                THEN {SourceMapPackage(pkg_name.value, source_url, "Low")}
                ELSE {}
            : k \in 1..Len(content) }

\* The name the classification pass records for a path after marker.
classified(path, marker) ==
    LET name == extract_package_from_path_segment(after_first(path, marker))
    IN  IF name.some THEN {name.value} ELSE {}

classify_packages_first(sources) ==
    [node_modules_names |->
        UNION { IF contains(strip_webpack(sources[k].path), Str_node_modules)
                THEN classified(strip_webpack(sources[k].path), Str_node_modules) ELSE {}
                : k \in 1..Len(sources) },
     workspace_names |->
        UNION { IF contains(strip_webpack(sources[k].path), Str_packages)
                THEN classified(strip_webpack(sources[k].path), Str_packages) ELSE {}
                : k \in 1..Len(sources) }]

\* parse: the classification pass over map.sources().
classify(sources) ==
    [node_modules_names |->
        UNION { IF contains(strip_webpack(sources[k].path), Str_node_modules)
                THEN classified(strip_webpack(sources[k].path), Str_node_modules) ELSE {}
                : k \in 1..Len(sources) },
     workspace_names |->
        UNION { IF /\ ~contains(strip_webpack(sources[k].path), Str_node_modules)
                   /\ contains(strip_webpack(sources[k].path), Str_packages)
                THEN classified(strip_webpack(sources[k].path), Str_packages) ELSE {}
                : k \in 1..Len(sources) }]

\* A source map file: whether SourceMap::from_slice accepts it, and its
\* sources with their sourcesContent (<<>> when absent).
SourceMap(parses, sources) == [parses |-> parses, sources |-> sources]

Source(path, content) == [path |-> path, content |-> content]

\* SourceMapParser::parse.  The returned Vec comes out of a HashSet, in no
\* fixed order; it is kept as the set of its elements.
parse(content, source_url) ==
    IF ~content.parses THEN [ok |-> FALSE, error |-> "SourceMapError"]
    ELSE LET sources == content.sources
             names == classify(sources)
             workspace_only == names.workspace_names \ names.node_modules_names
             packages ==
                UNION { extract_packages_from_path(sources[k].path, source_url)
                        : k \in 1..Len(sources) }
                \cup
                UNION { extract_packages_from_source_content(sources[k].content, source_url)
                        : k \in 1..Len(sources) }
         IN  [ok |-> TRUE,
              packages |-> {p \in packages : p.name \notin workspace_only},
              workspace_only |-> workspace_only]

Str_scoped_path == <<"w", "e", "b", "p", "a", "c", "k", ":", "/", "/", "/", "p", "a", "c", "k", "a", "g", "e", "s", "/", "@", "a", "/", "f", "/", "x", ".", "j", "s">>

Str_bundle_url == <<"b", "u", "n", "d", "l", "e", ".", "j", "s", ".", "m", "a", "p">>

\* Paths of sources: under packages/, under node_modules/, under both, a
\* direct reference and an application file.
SourcePaths ==
    { Str_scoped_path,
      <<"w", "e", "b", "p", "a", "c", "k", ":", "/", "/", "/", "n", "o", "d", "e", "_", "m", "o", "d", "u", "l", "e", "s", "/", "l", "o", "d", "a", "s", "h", "/", "x", ".", "j", "s">>,
      <<"w", "e", "b", "p", "a", "c", "k", ":", "/", "/", "/", "p", "a", "c", "k", "a", "g", "e", "s", "/", "l", "o", "d", "a", "s", "h", "/", "x", ".", "j", "s">>,
      <<"w", "e", "b", "p", "a", "c", "k", ":", "/", "/", "/", "n", "o", "d", "e", "_", "m", "o", "d", "u", "l", "e", "s", "/", "g", "l", "o", "b", "/", "x", ".", "j", "s">>,
      <<"p", "a", "c", "k", "a", "g", "e", "s", "/", "g", "l", "o", "b", "/", "x", ".", "j", "s">>,
      <<"p", "a", "c", "k", "a", "g", "e", "s", "/", "a", "/", "n", "o", "d", "e", "_", "m", "o", "d", "u", "l", "e", "s", "/", "@", "a", "/", "f", "/", "x", ".", "j", "s">>,
      <<"w", "e", "b", "p", "a", "c", "k", ":", "/", "/", "@", "a", "/", "f", "/", "x", ".", "j", "s">> }

Str_app_path == <<"w", "e", "b", "p", "a", "c", "k", ":", "/", "/", "/", "s", "r", "c", "/", "a", "p", "p", ".", "j", "s">>

RequireScoped == <<Line(<<"c", "o", "n", "s", "t", " ", "x", " ", "=", " ">>, Str_scoped)>>

SourcePool ==
    {Source(p, <<>>) : p \in SourcePaths}
    \cup { Source(Str_scoped_path, RequireScoped),
           Source(Str_app_path, RequireScoped),
           Source(Str_app_path, <<Line(<<"/", "/", " ">>, <<"l", "o", "d", "a", "s", "h", "/", "f", "p">>)>>),
           Source(Str_app_path, <<Line(<<>>, <<"l", "o", "d", "a", "s", "h", "/", "f", "p">>)>>) }

MaxSources == 3

SourceMaps ==
    {SourceMap(TRUE, ss) : ss \in SeqsUpTo(SourcePool, MaxSources)} \cup {SourceMap(FALSE, <<>>)}

\* parse(content, source_url) is called and returns.
ParseSourceMap ==
    /\ arg.f = "parse"
    /\ ret = NoRet
    /\ ret' = [f |-> "parse", value |-> parse(arg.content, arg.source_url)]
    /\ UNCHANGED <<all_packages, pending, by_name, dpc, arg>>
    /\ UNCHANGED <<fetchVars, npmVars, scanVars, browserVars, loopVars>>


----------------------------------------------------------------------------
(* Lazy-chunk discovery (scanner.rs: process_captured_js,                  *)
(* discover_lazy_chunks)                                                   *)

MaxDepth == 3     \* process_captured_js: for _depth in 0..3

MaxCaptured == 2  \* JS files the browser captured before the loop starts

\* A URL is the text up to and including its last '/' (dir, "" when it has
\* no '/') and the rest (file).
JsUrl(dir, file) == [dir |-> dir, file |-> file]

\* A quoted string of a JS body: "<prefix><stem><ext>".
Token(prefix, stem, ext) == [prefix |-> prefix, stem |-> stem, ext |-> ext]

ChunkStems == {"chunk-1", "chunk-2", "chunk-3", "chunk-4", "chunk-5", "chunk-6"}

\* The three chunk_patterns: a quote, '.', an optional '/', then the captured
\* chunk-[a-zA-Z0-9_-]+ with .js or .mjs, and the closing quote.  The import(
\* pattern matches a subset of what the first one does.
chunk_patterns(t) ==
    /\ t.prefix \in {"./", "."}
    /\ t.stem \in ChunkStems
    /\ t.ext \in {".js", ".mjs"}

\* js_file.url.rfind('/'): the base URL, or None.
base_url(url) == IF url.dir = "" THEN None ELSE Some(url.dir)

\* discover_lazy_chunks(js_files, target): the set of resolved chunk URLs.
discover_lazy_chunks(js_files) ==
    UNION { IF base_url(f.url) = None THEN {}
            ELSE { JsUrl(base_url(f.url).value, t.stem \o t.ext) :
                     t \in {x \in f.content : chunk_patterns(x)} }
          : f \in Range(js_files) }

\* What the site serves.  Bodies are sets of quoted strings.
Site(url) ==
    CASE url = JsUrl("/a/", "main.js") ->
            {Token("./", "chunk-1", ".js"), Token("./", "chunk-2", ".js"),
             Token("./", "vendor", ".js"), Token("", "chunk-6", ".js")}
      [] url = JsUrl("/b/", "app.js") ->
            {Token(".", "chunk-1", ".js"), Token("../", "chunk-2", ".js")}
      [] url = JsUrl("", "inline.js") ->
            {Token("./", "chunk-1", ".js")}
      [] url.file = "chunk-1.js" ->
            {Token("./", "chunk-1", ".js"), Token("./", "chunk-3", ".mjs")}
      [] url.file = "chunk-2.js" ->
            {Token("./", "chunk-1", ".js"), Token("./", "main", ".js")}
      [] url.file = "chunk-3.mjs" -> {Token("./", "chunk-4", ".js")}
      [] url.file = "chunk-4.js" -> {Token("./", "chunk-5", ".js")}
      [] url.file = "chunk-5.js" -> {Token("./", "chunk-1", ".js")}
      [] OTHER -> {}

JsFileOf(url) == [url |-> url, content |-> Site(url)]

CapturedUrls ==
    {JsUrl("/a/", "main.js"), JsUrl("/b/", "app.js"), JsUrl("", "inline.js"),
     JsUrl("/a/", "chunk-1.js")}

\* What the browser captured: a HashMap keyed by URL, so distinct URLs.
Captures ==
    {fs \in SeqsUpTo({JsFileOf(u) : u \in CapturedUrls}, MaxCaptured) :
        \A i, j \in 1..Len(fs) : i # j => fs[i] # fs[j]}

NoLazy ==
    [pc |-> "none", all_js_files |-> <<>>, seen_urls |-> {}, scan_from |-> 0,
     depth |-> 0, new_urls |-> {}, rounds |-> <<>>]

\* process_captured_js up to the loop: seen_urls, scan_from = 0.
\* rounds is a ghost: per round of the loop, the positions of all_js_files it
\* scanned, the new URLs it yielded and the positions of the files it pushed.
NewLazy(files) ==
    [pc |-> "discover", all_js_files |-> files,
     seen_urls |-> {files[i].url : i \in 1..Len(files)}, scan_from |-> 0,
     depth |-> 0, new_urls |-> {}, rounds |-> <<>>]

\* The end of one pass over the for body: the next _depth, or the loop ends.
next_depth_unbounded(l) == [l EXCEPT !.depth = @ + 1, !.pc = "discover"]

next_depth(l) ==
    [l EXCEPT !.depth = @ + 1,
              !.pc = IF l.depth + 1 < MaxDepth THEN "discover" ELSE "done"]

\* The head of the for body: discover_lazy_chunks on all_js_files[scan_from..],
\* the filter on seen_urls, break on no new URL, scan_from = all_js_files.len().
LazyDiscover ==
    /\ lazy.pc = "discover"
    /\ LET n == Len(lazy.all_js_files)
           chunk_urls == discover_lazy_chunks(
                            SubSeq(lazy.all_js_files, lazy.scan_from + 1, n))
           new_urls == chunk_urls \ lazy.seen_urls
           round == [scanned |-> (lazy.scan_from + 1)..n, yielded |-> new_urls,
                     pushed |-> {}]
       IN  lazy' = IF new_urls = {}
                   THEN [lazy EXCEPT !.pc = "done", !.rounds = Append(@, round)]
                   ELSE [lazy EXCEPT !.pc = "fetch", !.scan_from = n,
                                     !.new_urls = new_urls,
                                     !.rounds = Append(@, round)]
    /\ UNCHANGED <<settle, callers>>
    /\ UNCHANGED <<fetchVars, npmVars, scanVars, extractVars, browserVars>>

\* for chunk_url in new_urls: seen_urls.insert, fetch_one returns Some(file).
\* new_urls was collected from a HashSet: its order is any order.
LazyFetchSome ==
    /\ lazy.pc = "fetch"
    /\ \E u \in lazy.new_urls :
        LET l == [lazy EXCEPT !.seen_urls = @ \cup {u},
                              !.all_js_files = Append(@, JsFileOf(u)),
                              !.new_urls = @ \ {u},
                              !.rounds[Len(lazy.rounds)].pushed =
                                   @ \cup {Len(lazy.all_js_files) + 1}]
        IN  lazy' = IF l.new_urls = {} THEN next_depth(l) ELSE l
    /\ UNCHANGED <<settle, callers>>
    /\ UNCHANGED <<fetchVars, npmVars, scanVars, extractVars, browserVars>>

\* for chunk_url in new_urls: seen_urls.insert, fetch_one returns None.
LazyFetchNone ==
    /\ lazy.pc = "fetch"
    /\ \E u \in lazy.new_urls :
        LET l == [lazy EXCEPT !.seen_urls = @ \cup {u}, !.new_urls = @ \ {u}]
        IN  lazy' = IF l.new_urls = {} THEN next_depth(l) ELSE l
    /\ UNCHANGED <<settle, callers>>
    /\ UNCHANGED <<fetchVars, npmVars, scanVars, extractVars, browserVars>>


----------------------------------------------------------------------------
(* The adaptive wait of capture_js_files (discovery/browser_capture.rs)    *)

MaxNewFiles == 3   \* JS responses that arrive while capture_js_files waits

check_interval_ms == 500

max_wait_secs(fast_mode) == IF fast_mode THEN 1 ELSE 3

max_checks(fast_mode) == (max_wait_secs(fast_mode) * 1000) \div check_interval_ms

NoSettle ==
    [pc |-> "none", fast_mode |-> FALSE, js_files |-> 0, arrived |-> 0,
     checks |-> 0, last_count |-> 0, no_change_count |-> 0, slept_ms |-> 0,
     samples |-> <<>>]

\* After navigation: last_count = js_files.len(), no_change_count = 0.
\* js_files is the number of captured files; slept_ms and samples are ghosts:
\* the time slept so far and the counts read so far, the first one included.
NewSettle(fast_mode, count) ==
    [pc |-> "loop", fast_mode |-> fast_mode, js_files |-> count, arrived |-> 0,
     checks |-> 0, last_count |-> count, no_change_count |-> 0, slept_ms |-> 0,
     samples |-> <<count>>]

sample_keeps_counter(s, current_count) ==
    LET t == [s EXCEPT !.checks = @ + 1,
                       !.slept_ms = @ + check_interval_ms,
                       !.samples = Append(@, current_count)]
        u == IF current_count = s.last_count
             THEN [t EXCEPT !.no_change_count = @ + 1]
             ELSE [t EXCEPT !.last_count = current_count]
    IN  IF u.no_change_count >= 3 \/ u.checks >= max_checks(s.fast_mode)
        THEN [u EXCEPT !.pc = "done"]
        ELSE u

\* One pass over the body of `for _ in 0..max_checks`: the sleep, the read of
\* js_files.len(), the comparison, the break; then the loop condition.
sample(s, current_count) ==
    LET t == [s EXCEPT !.checks = @ + 1,
                       !.slept_ms = @ + check_interval_ms,
                       !.samples = Append(@, current_count)]
        u == IF current_count = s.last_count
             THEN [t EXCEPT !.no_change_count = @ + 1]
             ELSE [t EXCEPT !.no_change_count = 0, !.last_count = current_count]
    IN  IF u.no_change_count >= 3 \/ u.checks >= max_checks(s.fast_mode)
        THEN [u EXCEPT !.pc = "done"]
        ELSE u

\* The capture task stores a JS response under a new URL.
SettleCapture ==
    /\ settle.pc = "loop"
    /\ settle.arrived < MaxNewFiles
    /\ settle' = [settle EXCEPT !.js_files = @ + 1, !.arrived = @ + 1]
    /\ UNCHANGED <<lazy, callers>>
    /\ UNCHANGED <<fetchVars, npmVars, scanVars, extractVars, browserVars>>

\* tokio::time::sleep(500 ms) returns and the loop body runs.
SettleSample ==
    /\ settle.pc = "loop"
    /\ settle' = sample(settle, settle.js_files)
    /\ UNCHANGED <<lazy, callers>>
    /\ UNCHANGED <<fetchVars, npmVars, scanVars, extractVars, browserVars>>


----------------------------------------------------------------------------
(* Concurrent callers of RegistryCache (registry/cache.rs)                 *)

MaxCallers == 2   \* threads that share one RegistryCache

Callers == 1..MaxCallers

CacheResults(name) == {Exists(name, "1.0.0"), NotFound(name)}

IdleCaller == [pc |-> "idle", name |-> <<>>, returned |-> None]

NoCallers == [t \in Callers |-> IdleCaller]

\* RegistryCache::get up to drop(entry).  The DashMap guard is held over the
\* lookup and the comparison with Instant::now(); an entry that has expired
\* sends the caller on to cache.remove with the guard released.
CacheGet(t) ==
    /\ callers[t].pc = "idle"
    /\ \E name \in PkgNames :
        LET got == RegistryCache_get(cache, name, now)
        IN  callers' = [callers EXCEPT ![t] =
               IF got.found /\ ~got.hit
               THEN [pc |-> "remove", name |-> name, returned |-> None]
               ELSE [pc |-> "idle", name |-> name,
                     returned |-> IF got.hit THEN Some(got.result) ELSE None]]
    /\ UNCHANGED <<lazy, settle>>
    /\ UNCHANGED npmVars
    /\ UNCHANGED <<fetchVars, scanVars, extractVars, browserVars>>

\* RegistryCache::get, the expired case: self.cache.remove(package_name); None.
CacheGetRemove(t) ==
    /\ callers[t].pc = "remove"
    /\ cache' = RegistryCache_remove(cache, callers[t].name)
    /\ callers' = [callers EXCEPT ![t].pc = "idle"]
    /\ UNCHANGED <<lazy, settle>>
    /\ UNCHANGED <<now, ncalls, packages_to_check, results, findings, npc, scans,
                   skip_npm_check>>
    /\ UNCHANGED <<fetchVars, scanVars, extractVars, browserVars>>

\* RegistryCache::set.
CacheSet(t) ==
    /\ callers[t].pc = "idle"
    /\ \E name \in PkgNames :
         \E result \in CacheResults(name) :
            /\ cache' = RegistryCache_set(cache, name, result, now)
            /\ callers' = [callers EXCEPT ![t] =
                              [pc |-> "idle", name |-> name, returned |-> None]]
    /\ UNCHANGED <<lazy, settle>>
    /\ UNCHANGED <<now, ncalls, packages_to_check, results, findings, npc, scans,
                   skip_npm_check>>
    /\ UNCHANGED <<fetchVars, scanVars, extractVars, browserVars>>

----------------------------------------------------------------------------
(* Specifications *)

\* A fresh JsFetcher; the other subsystems are idle.
InitFetch ==
    /\ max_retries \in 0..MaxRetries
    /\ seen_hashes = {}
    /\ fcalls = [c \in FetchIds |-> IdleCall]
    /\ now = 0
    /\ cache = [n \in PkgNames |-> NoEntry]
    /\ ncalls = <<>>
    /\ packages_to_check = <<>>
    /\ results = <<>>
    /\ findings = <<>>
    /\ npc = "idle"
    /\ scans = 0
    /\ skip_npm_check = FALSE
    /\ targets = <<>>
    /\ parallel = 1
    /\ spc = "start"
    /\ host_groups = <<>>
    /\ groups = [k \in Slots |-> NoGroup]
    /\ all_group_results = <<>>
    /\ output = <<>>
    /\ faults = 0
    /\ BROWSER_INSTANCE_COUNTER = 0
    /\ launched = <<>>
    /\ all_packages = {}
    /\ pending = {}
    /\ by_name = <<>>
    /\ dpc = "collect"
    /\ arg = NoArg
    /\ ret = NoRet
    /\ lazy = NoLazy
    /\ settle = NoSettle
    /\ callers = NoCallers

NextFetch ==
    \E c \in FetchIds :
        \/ FetchStart(c)
        \/ FetchAdmit(c)
        \/ FetchRequest(c)
        \/ FetchSleep(c)
        \/ FetchGiveUp(c)
        \/ FetchDedupRead(c)
        \/ FetchDedupWrite(c)

SpecFetch == InitFetch /\ [][NextFetch]_vars

\* A fresh Scanner about to run its registry checks.
InitNpm ==
    /\ max_retries = 0
    /\ seen_hashes = {}
    /\ fcalls = [c \in FetchIds |-> IdleCall]
    /\ now = 0
    /\ cache = [n \in PkgNames |-> NoEntry]
    /\ ncalls = <<>>
    /\ packages_to_check = <<>>
    /\ results = <<>>
    /\ findings = <<>>
    /\ npc = "idle"
    /\ scans = 0
    /\ skip_npm_check \in BOOLEAN
    /\ targets = <<>>
    /\ parallel = 1
    /\ spc = "start"
    /\ host_groups = <<>>
    /\ groups = [k \in Slots |-> NoGroup]
    /\ all_group_results = <<>>
    /\ output = <<>>
    /\ faults = 0
    /\ BROWSER_INSTANCE_COUNTER = 0
    /\ launched = <<>>
    /\ all_packages = {}
    /\ pending = {}
    /\ by_name = <<>>
    /\ dpc = "collect"
    /\ arg = NoArg
    /\ ret = NoRet
    /\ lazy = NoLazy
    /\ settle = NoSettle
    /\ callers = NoCallers

NextNpm ==
    \/ Tick
    \/ NpmStartScan
    \/ NpmSkipScan
    \/ NpmReport
    \/ \E i \in 1..MaxPkgs :
        \/ CheckBegin(i)
        \/ CheckCacheRemove(i)
        \/ CheckAdmit(i)
        \/ CheckGetPkg(i)
        \/ CheckUser(i)
        \/ CheckOrg(i)
        \/ CheckSearch(i)

SpecNpm == InitNpm /\ [][NextNpm]_vars

\* scan_multiple is called with a list of targets.
InitScan ==
    /\ max_retries = 0
    /\ seen_hashes = {}
    /\ fcalls = [c \in FetchIds |-> IdleCall]
    /\ now = 0
    /\ cache = [n \in PkgNames |-> NoEntry]
    /\ ncalls = <<>>
    /\ packages_to_check = <<>>
    /\ results = <<>>
    /\ findings = <<>>
    /\ npc = "idle"
    /\ scans = 0
    /\ skip_npm_check = FALSE
    /\ \/ targets \in SeqsUpTo(UrlPool, MaxTargets) /\ parallel \in 0..MaxParallel
       \/ targets = LongList /\ parallel = 1
    /\ spc = "start"
    /\ host_groups = <<>>
    /\ groups = [k \in Slots |-> NoGroup]
    /\ all_group_results = <<>>
    /\ output = <<>>
    /\ faults = 0
    /\ BROWSER_INSTANCE_COUNTER = 0
    /\ launched = <<>>
    /\ all_packages = {}
    /\ pending = {}
    /\ by_name = <<>>
    /\ dpc = "collect"
    /\ arg = NoArg
    /\ ret = NoRet
    /\ lazy = NoLazy
    /\ settle = NoSettle
    /\ callers = NoCallers

NextScan ==
    \/ ScanSingle
    \/ ScanGroup
    \/ GroupStart
    \/ ScanReturn
    \/ \E k \in Slots :
        \/ CaptureLaunchOk(k)
        \/ CaptureLaunchFail(k)
        \/ CaptureRestartKill(k)
        \/ CaptureRestartOk(k)
        \/ CaptureRestartFail(k)
        \/ CapturePage(k)
        \/ CaptureTimeout(k)
        \/ CaptureRelaunchOk(k)
        \/ CaptureRelaunchFail(k)
        \/ CaptureNoBrowser(k)
        \/ GroupProcess(k)
        \/ GroupPanic(k)
        \/ GroupComplete(k)
        \/ SingleReturn(k)

SpecScan == InitScan /\ [][NextScan]_vars

Init ==
    /\ max_retries \in 0..MaxRetries
    /\ seen_hashes = {}
    /\ fcalls = [c \in FetchIds |-> IdleCall]
    /\ now = 0
    /\ cache = [n \in PkgNames |-> NoEntry]
    /\ ncalls = <<>>
    /\ packages_to_check = <<>>
    /\ results = <<>>
    /\ findings = <<>>
    /\ npc = "idle"
    /\ scans = 0
    /\ skip_npm_check \in BOOLEAN
    /\ \/ targets \in SeqsUpTo(UrlPool, MaxTargets) /\ parallel \in 0..MaxParallel
       \/ targets = LongList /\ parallel = 1
    /\ spc = "start"
    /\ host_groups = <<>>
    /\ groups = [k \in Slots |-> NoGroup]
    /\ all_group_results = <<>>
    /\ output = <<>>
    /\ faults = 0
    /\ BROWSER_INSTANCE_COUNTER = 0
    /\ launched = <<>>
    /\ all_packages = {}
    /\ pending = {}
    /\ by_name = <<>>
    /\ dpc = "collect"
    /\ arg = NoArg
    /\ ret = NoRet
    /\ lazy = NoLazy
    /\ settle = NoSettle
    /\ callers = NoCallers

Next == NextFetch \/ NextNpm \/ NextScan

Spec == Init /\ [][Next]_vars

\* The file tasks have not finished yet; the other subsystems are idle.
InitDedup ==
    /\ max_retries = 0
    /\ seen_hashes = {}
    /\ fcalls = [c \in FetchIds |-> IdleCall]
    /\ now = 0
    /\ cache = [n \in PkgNames |-> NoEntry]
    /\ ncalls = <<>>
    /\ packages_to_check = <<>>
    /\ results = <<>>
    /\ findings = <<>>
    /\ npc = "idle"
    /\ scans = 0
    /\ skip_npm_check = FALSE
    /\ targets = <<>>
    /\ parallel = 1
    /\ spc = "start"
    /\ host_groups = <<>>
    /\ groups = [k \in Slots |-> NoGroup]
    /\ all_group_results = <<>>
    /\ output = <<>>
    /\ faults = 0
    /\ BROWSER_INSTANCE_COUNTER = 0
    /\ launched = <<>>
    /\ all_packages = {}
    /\ pending = {}
    /\ by_name = <<>>
    /\ dpc = "collect"
    /\ arg = NoArg
    /\ ret = NoRet
    /\ lazy = NoLazy
    /\ settle = NoSettle
    /\ callers = NoCallers

NextDedup ==
    \/ \E p \in DedupPool : PackagesExtend(p)
    \/ DedupStart
    \/ \E p \in DedupPool : DedupVisit(p)
    \/ DedupReturn

SpecDedup == InitDedup /\ [][NextDedup]_vars

\* group_by_host is about to be called on a list of URLs.
InitGroup ==
    /\ max_retries = 0
    /\ seen_hashes = {}
    /\ fcalls = [c \in FetchIds |-> IdleCall]
    /\ now = 0
    /\ cache = [n \in PkgNames |-> NoEntry]
    /\ ncalls = <<>>
    /\ packages_to_check = <<>>
    /\ results = <<>>
    /\ findings = <<>>
    /\ npc = "idle"
    /\ scans = 0
    /\ skip_npm_check = FALSE
    /\ targets = <<>>
    /\ parallel = 1
    /\ spc = "start"
    /\ host_groups = <<>>
    /\ groups = [k \in Slots |-> NoGroup]
    /\ all_group_results = <<>>
    /\ output = <<>>
    /\ faults = 0
    /\ BROWSER_INSTANCE_COUNTER = 0
    /\ launched = <<>>
    /\ all_packages = {}
    /\ pending = {}
    /\ by_name = <<>>
    /\ dpc = "collect"
    /\ arg \in {[f |-> "group_by_host", urls |-> us] : us \in SeqsUpTo(GroupUrls, MaxUrls)}
    /\ ret = NoRet
    /\ lazy = NoLazy
    /\ settle = NoSettle
    /\ callers = NoCallers

NextGroup == GroupByHost

SpecGroup == InitGroup /\ [][NextGroup]_vars

\* create_finding is about to be called for a checked package.
InitFinding ==
    /\ max_retries = 0
    /\ seen_hashes = {}
    /\ fcalls = [c \in FetchIds |-> IdleCall]
    /\ now = 0
    /\ cache = [n \in PkgNames |-> NoEntry]
    /\ ncalls = <<>>
    /\ packages_to_check = <<>>
    /\ results = <<>>
    /\ findings = <<>>
    /\ npc = "idle"
    /\ scans = 0
    /\ skip_npm_check = FALSE
    /\ targets = <<>>
    /\ parallel = 1
    /\ spc = "start"
    /\ host_groups = <<>>
    /\ groups = [k \in Slots |-> NoGroup]
    /\ all_group_results = <<>>
    /\ output = <<>>
    /\ faults = 0
    /\ BROWSER_INSTANCE_COUNTER = 0
    /\ launched = <<>>
    /\ all_packages = {}
    /\ pending = {}
    /\ by_name = <<>>
    /\ dpc = "collect"
    /\ arg \in {[f |-> "create_finding", package |-> p, npm_result |-> r] :
                 p \in FindingPackages, r \in UNION {ResultsFor(n) : n \in FindingNames}}
    /\ arg.npm_result.name = arg.package.name
    /\ ret = NoRet
    /\ lazy = NoLazy
    /\ settle = NoSettle
    /\ callers = NoCallers

NextFinding == CreateFinding

SpecFinding == InitFinding /\ [][NextFinding]_vars

\* normalize_package_name is about to be called on a raw name.
InitNormalize ==
    /\ max_retries = 0
    /\ seen_hashes = {}
    /\ fcalls = [c \in FetchIds |-> IdleCall]
    /\ now = 0
    /\ cache = [n \in PkgNames |-> NoEntry]
    /\ ncalls = <<>>
    /\ packages_to_check = <<>>
    /\ results = <<>>
    /\ findings = <<>>
    /\ npc = "idle"
    /\ scans = 0
    /\ skip_npm_check = FALSE
    /\ targets = <<>>
    /\ parallel = 1
    /\ spc = "start"
    /\ host_groups = <<>>
    /\ groups = [k \in Slots |-> NoGroup]
    /\ all_group_results = <<>>
    /\ output = <<>>
    /\ faults = 0
    /\ BROWSER_INSTANCE_COUNTER = 0
    /\ launched = <<>>
    /\ all_packages = {}
    /\ pending = {}
    /\ by_name = <<>>
    /\ dpc = "collect"
    /\ arg \in {[f |-> "normalize_package_name", name |-> n] : n \in RawNames}
    /\ ret = NoRet
    /\ lazy = NoLazy
    /\ settle = NoSettle
    /\ callers = NoCallers

NextNormalize == NormalizePackageName

SpecNormalize == InitNormalize /\ [][NextNormalize]_vars

\* SourceMapParser::parse is about to be called on a source map file.
InitParse ==
    /\ max_retries = 0
    /\ seen_hashes = {}
    /\ fcalls = [c \in FetchIds |-> IdleCall]
    /\ now = 0
    /\ cache = [n \in PkgNames |-> NoEntry]
    /\ ncalls = <<>>
    /\ packages_to_check = <<>>
    /\ results = <<>>
    /\ findings = <<>>
    /\ npc = "idle"
    /\ scans = 0
    /\ skip_npm_check = FALSE
    /\ targets = <<>>
    /\ parallel = 1
    /\ spc = "start"
    /\ host_groups = <<>>
    /\ groups = [k \in Slots |-> NoGroup]
    /\ all_group_results = <<>>
    /\ output = <<>>
    /\ faults = 0
    /\ BROWSER_INSTANCE_COUNTER = 0
    /\ launched = <<>>
    /\ all_packages = {}
    /\ pending = {}
    /\ by_name = <<>>
    /\ dpc = "collect"
    /\ arg \in {[f |-> "parse", content |-> c, source_url |-> Str_bundle_url] : c \in SourceMaps}
    /\ ret = NoRet
    /\ lazy = NoLazy
    /\ settle = NoSettle
    /\ callers = NoCallers

NextParse == ParseSourceMap

SpecParse == InitParse /\ [][NextParse]_vars

\* process_captured_js is about to run its lazy-chunk loop on a capture.
InitLazy ==
    /\ max_retries = 0
    /\ seen_hashes = {}
    /\ fcalls = [c \in FetchIds |-> IdleCall]
    /\ now = 0
    /\ cache = [n \in PkgNames |-> NoEntry]
    /\ ncalls = <<>>
    /\ packages_to_check = <<>>
    /\ results = <<>>
    /\ findings = <<>>
    /\ npc = "idle"
    /\ scans = 0
    /\ skip_npm_check = FALSE
    /\ targets = <<>>
    /\ parallel = 1
    /\ spc = "start"
    /\ host_groups = <<>>
    /\ groups = [k \in Slots |-> NoGroup]
    /\ all_group_results = <<>>
    /\ output = <<>>
    /\ faults = 0
    /\ BROWSER_INSTANCE_COUNTER = 0
    /\ launched = <<>>
    /\ all_packages = {}
    /\ pending = {}
    /\ by_name = <<>>
    /\ dpc = "collect"
    /\ arg = NoArg
    /\ ret = NoRet
    /\ lazy \in {NewLazy(fs) : fs \in Captures}
    /\ settle = NoSettle
    /\ callers = NoCallers

NextLazy ==
    \/ LazyDiscover
    \/ LazyFetchSome
    \/ LazyFetchNone

SpecLazy == InitLazy /\ [][NextLazy]_vars

\* capture_js_files has navigated and is about to wait for lazy content.
InitSettle ==
    /\ max_retries = 0
    /\ seen_hashes = {}
    /\ fcalls = [c \in FetchIds |-> IdleCall]
    /\ now = 0
    /\ cache = [n \in PkgNames |-> NoEntry]
    /\ ncalls = <<>>
    /\ packages_to_check = <<>>
    /\ results = <<>>
    /\ findings = <<>>
    /\ npc = "idle"
    /\ scans = 0
    /\ skip_npm_check = FALSE
    /\ targets = <<>>
    /\ parallel = 1
    /\ spc = "start"
    /\ host_groups = <<>>
    /\ groups = [k \in Slots |-> NoGroup]
    /\ all_group_results = <<>>
    /\ output = <<>>
    /\ faults = 0
    /\ BROWSER_INSTANCE_COUNTER = 0
    /\ launched = <<>>
    /\ all_packages = {}
    /\ pending = {}
    /\ by_name = <<>>
    /\ dpc = "collect"
    /\ arg = NoArg
    /\ ret = NoRet
    /\ lazy = NoLazy
    /\ settle \in {NewSettle(fm, n) : fm \in BOOLEAN, n \in 0..1}
    /\ callers = NoCallers

NextSettle ==
    \/ SettleCapture
    \/ SettleSample

\* The sleep of the loop body returns: the timer is a tokio timer.
SpecSettle == InitSettle /\ [][NextSettle]_vars /\ WF_vars(SettleSample)

\* A fresh RegistryCache shared by the calling threads.
InitCache ==
    /\ max_retries = 0
    /\ seen_hashes = {}
    /\ fcalls = [c \in FetchIds |-> IdleCall]
    /\ now = 0
    /\ cache = [n \in PkgNames |-> NoEntry]
    /\ ncalls = <<>>
    /\ packages_to_check = <<>>
    /\ results = <<>>
    /\ findings = <<>>
    /\ npc = "idle"
    /\ scans = 0
    /\ skip_npm_check = FALSE
    /\ targets = <<>>
    /\ parallel = 1
    /\ spc = "start"
    /\ host_groups = <<>>
    /\ groups = [k \in Slots |-> NoGroup]
    /\ all_group_results = <<>>
    /\ output = <<>>
    /\ faults = 0
    /\ BROWSER_INSTANCE_COUNTER = 0
    /\ launched = <<>>
    /\ all_packages = {}
    /\ pending = {}
    /\ by_name = <<>>
    /\ dpc = "collect"
    /\ arg = NoArg
    /\ ret = NoRet
    /\ lazy = NoLazy
    /\ settle = NoSettle
    /\ callers = NoCallers

NextCache ==
    \/ Tick
    \/ \E t \in Callers :
          \/ CacheGet(t)
          \/ CacheGetRemove(t)
          \/ CacheSet(t)

SpecCache == InitCache /\ [][NextCache]_vars

----------------------------------------------------------------------------
(* Properties *)

Count(seq, x) == Cardinality({i \in 1..Len(seq) : seq[i] = x})

Targets(rs) == [i \in 1..Len(rs) |-> rs[i].target]

C2_InputOrder ==
    spc = "returned" =>
        \A i \in 1..Len(output) :
            i <= Len(targets) /\ output[i].target = targets[i]

\* The registry result of a pair is reportable in the words of the
\* specification.
Reportable(pr) ==
    \/ pr.npm_result.variant \in {"ScopeNotClaimed", "Exists", "Error"}
    \/ (pr.npm_result.variant = "NotFound" /\ ~is_scoped(pr.package))

\* C3: a (package, result) pair is in findings iff the result is
\* ScopeNotClaimed, Exists or Error, or NotFound for an unscoped name.
C3_EmissionPredicate ==
    (npc = "done" /\ ~skip_npm_check) =>
        /\ \A k \in 1..Len(results) :
              (results[k] \in Range(findings)) <=> Reportable(results[k])
        /\ Range(findings) \subseteq Range(results)

C3_Witness ==
    /\ npc = "done"
    /\ \E k \in 1..Len(results) :
          /\ results[k].npm_result.variant = "NotFound"
          /\ is_scoped(results[k].package)
    /\ \E k \in 1..Len(findings) : findings[k].npm_result.variant = "NotFound"

\* A check_package call that went to the registry and has returned.
Checked(i) == ncalls[i].pc = "done" /\ ~ncalls[i].hit

Proved(ev) == "proved" \in {ev.user, ev.org, ev.search}

\* C4: on a scoped name the result is ScopeNotClaimed iff the package GET
\* was a 404 and no ownership check proved the scope claimed; when one
\* proves it claimed the result is NotFound.
C4_ScopeNotClaimedIff ==
    \A i \in 1..Len(ncalls) :
        (Checked(i) /\ is_scoped(ncalls[i].name)) =>
            LET c == ncalls[i]
            IN  /\ (c.result.variant = "ScopeNotClaimed")
                      <=> (c.ev.first = "404" /\ ~Proved(c.ev))
                /\ (c.ev.first = "404" /\ Proved(c.ev))
                      => c.result.variant = "NotFound"

C4_Witness ==
    \E i \in 1..Len(ncalls) :
        /\ Checked(i)
        /\ ncalls[i].result.variant = "ScopeNotClaimed"
        /\ ncalls[i].ev.user = "noproof"
        /\ ncalls[i].ev.org = "noproof"
        /\ ncalls[i].ev.search = "noproof"

Issued(ev) == Cardinality({f \in {"user", "org", "search"} : ev[f] # "none"})

\* C5: a failed check in the cascade (non-2xx, transport error, unparsable
\* body) gives no Error and does not end the cascade: the next check is
\* issued, and three failed checks give ScopeNotClaimed.
C5_CascadeContinues ==
    \A i \in 1..Len(ncalls) :
        (Checked(i) /\ ncalls[i].ev.first = "404" /\ is_scoped(ncalls[i].name)) =>
            LET c == ncalls[i]
            IN  /\ c.result.variant # "Error"
                /\ c.ev.user # "none"
                /\ c.ev.user = "failed" => c.ev.org # "none"
                /\ c.ev.org = "failed" => c.ev.search # "none"
                /\ c.requests = 1 + Issued(c.ev)
                /\ (c.ev.user = "failed" /\ c.ev.org = "failed" /\ c.ev.search = "failed")
                      => c.result.variant = "ScopeNotClaimed"

C5_Witness ==
    \E i \in 1..Len(ncalls) :
        /\ Checked(i)
        /\ ncalls[i].ev.user = "failed"
        /\ ncalls[i].ev.org = "failed"
        /\ ncalls[i].ev.search = "failed"
        /\ ncalls[i].result.variant = "ScopeNotClaimed"

\* C6: unless it is a 404 on a scoped name, the first GET decides: 2xx
\* gives Exists (no version when the body does not parse), 404 on an
\* unscoped name NotFound, any other status or a transport error Error,
\* with no further request.
C6_FirstGetDecides ==
    \A i \in 1..Len(ncalls) :
        Checked(i) =>
            LET c == ncalls[i]
            IN  /\ c.ev.first \in {"2xx", "2xx-unparsable"} =>
                      c.result.variant = "Exists" /\ c.requests = 1
                /\ c.ev.first = "2xx-unparsable" => c.result.latest_version = ""
                /\ (c.ev.first = "404" /\ ~is_scoped(c.name)) =>
                      c.result.variant = "NotFound" /\ c.requests = 1
                /\ c.ev.first \in {"other", "transport"} =>
                      c.result.variant = "Error" /\ c.requests = 1
                /\ c.result.name = c.name

C6_Witness ==
    \E i \in 1..Len(ncalls) :
        /\ Checked(i)
        /\ is_scoped(ncalls[i].name)
        /\ ncalls[i].ev.first = "2xx-unparsable"
        /\ ncalls[i].result.variant = "Exists"

\* The entry a call found at its cache read was there and had not reached
\* its expiry time, the time of its set plus the TTL.
Unexpired(c) ==
    c.seen.present /\ c.began_at < c.seen.set_at + CACHE_TTL_SECS

\* C7: check_package reads the cache first: on an unexpired entry it
\* returns the stored result with no admission and no request; otherwise
\* it runs the registry check and has stored the result when it returns.
C7_ReadThroughCache ==
    \A i \in 1..Len(ncalls) :
        LET c == ncalls[i]
        IN  /\ c.pc = "idle" => c.admissions = 0 /\ c.requests = 0
            /\ c.pc = "done" =>
                  IF Unexpired(c)
                  THEN /\ c.result = c.seen.result
                       /\ c.admissions = 0
                       /\ c.requests = 0
                  ELSE /\ c.admissions = 1
                       /\ c.requests >= 1
                       /\ cache[c.name].present
                       /\ cache[c.name].result = c.result

C7_Witness ==
    \E i, j \in 1..Len(ncalls) :
        /\ ncalls[i].pc = "done" /\ ncalls[i].hit
        /\ ncalls[j].pc = "done" /\ ~ncalls[j].hit

\* C8: RegistryCache.get never returns an entry that has reached its expiry
\* time; a get that finds one returns None and removes it.
C8_NoExpiredHit ==
    \A i \in 1..Len(ncalls) :
        LET c == ncalls[i]
        IN  /\ c.hit => Unexpired(c)
            /\ (c.pc # "idle" /\ c.seen.present /\ ~Unexpired(c)) =>
                  /\ ~c.hit
                  /\ c.pc \notin {"cache_remove", "done"} => ~cache[c.name].present
                  /\ c.pc = "done" => cache[c.name].set_at >= c.began_at

C8_Witness ==
    \E i \in 1..Len(ncalls) :
        /\ ncalls[i].pc = "rate_limit"
        /\ ncalls[i].seen.present
        /\ ~cache[ncalls[i].name].present

\* C9: a fetch_one call answered with a 4xx status makes exactly one
\* request, sleeps for no backoff and returns None.
C9_ClientErrorFailsFast ==
    \A c \in FetchIds :
        fcalls[c].first = "4xx" =>
            /\ fcalls[c].pc = "done"
            /\ fcalls[c].requests = 1
            /\ fcalls[c].sleeps = <<>>
            /\ fcalls[c].result = NoFile

C9_Witness ==
    /\ max_retries >= 1
    /\ \E c \in FetchIds : fcalls[c].first = "4xx" /\ fcalls[c].pc = "done"

\* C10: a fetch_one call whose every response is a non-4xx failure status
\* or a transport error makes 1 + max_retries requests, waits 500 ms * k
\* before retry k and not after the last attempt, and returns None.
C10_RetriesExhausted ==
    \A c \in FetchIds :
        (FetchEnded(c) /\ fcalls[c].allRetryable) =>
            /\ fcalls[c].pc = "done"
            /\ fcalls[c].requests = 1 + max_retries
            /\ fcalls[c].sleeps = [k \in 1..max_retries |-> 500 * k]
            /\ fcalls[c].result = NoFile

\* C11: across the fetch_one calls on one JsFetcher, concurrent ones
\* included, at most one returns a JsFile for any given content hash; every
\* other call that fetched the same body returns None.
C11_OneFilePerHash ==
    \A c, d \in FetchIds :
        (/\ c # d
         /\ fcalls[c].pc = "done" /\ fcalls[d].pc = "done"
         /\ fcalls[c].hash # <<>> /\ fcalls[c].hash = fcalls[d].hash)
            => ~(fcalls[c].result.some /\ fcalls[d].result.some)

\* The order of the specification on candidates: confidence first, then
\* the priority class of the extraction method.
MethodClass(m) ==
    CASE m \in {"Import", "Require", "DynamicImport"} -> "code"
      [] m \in {"SourceMap", "WebpackChunk"} -> "bundle"
      [] m \in {"Comment", "ErrorMessage", "Deobfuscate"} -> "text"

ClassAbove(a, b) ==
    <<a, b>> \in {<<"code", "bundle">>, <<"code", "text">>, <<"bundle", "text">>}

ConfidenceAbove(a, b) ==
    <<a, b>> \in {<<"High", "Medium">>, <<"High", "Low">>, <<"Medium", "Low">>}

Above(p, q) ==
    \/ ConfidenceAbove(p.confidence, q.confidence)
    \/ /\ p.confidence = q.confidence
       /\ ClassAbove(MethodClass(p.extraction_method), MethodClass(q.extraction_method))

Candidates(n) ==
    {p \in all_packages : p.name = n /\ ~should_skip_package(p)}

\* C12: deduplicate_packages returns at most one record per name, and for
\* every name with a candidate that should_skip_package does not reject the
\* kept record is one of those candidates and none of them is above it in
\* the order (confidence, extraction-method priority).
C12_DedupKeepsMaximal ==
    dpc = "returned" =>
        /\ \A p, q \in ret.value : p.name = q.name => p = q
        /\ \A n \in DedupNames :
              Candidates(n) # {} =>
                  \E k \in ret.value :
                      /\ k \in Candidates(n)
                      /\ \A c \in Candidates(n) : ~Above(c, k)

C12_Witness ==
    /\ dpc = "returned"
    /\ \E n \in DedupNames :
          /\ Cardinality(Candidates(n)) = 3
          /\ \E p, q \in Candidates(n) :
                /\ p.confidence # q.confidence
                /\ MethodClass(p.extraction_method) # MethodClass(q.extraction_method)

\* The map the for loop builds when it visits the packages of S in one
\* fixed order.
RECURSIVE VisitInOrder(_, _)
VisitInOrder(S, map) ==
    IF S = {} THEN map
    ELSE LET p == CHOOSE x \in S : TRUE
         IN  VisitInOrder(S \ {p}, visit(map, p))

\* C13: for a fixed set of candidates deduplicate_packages returns the same
\* record for each name whatever order the candidates are visited in: what
\* it returns is what a visit in one fixed order returns.
C13_DedupOrderIndependent ==
    dpc = "returned" =>
        \A n \in DedupNames :
            LET fixed == VisitInOrder(all_packages, <<>>)
            IN  /\ (n \in DOMAIN by_name) <=> (n \in DOMAIN fixed)
                /\ n \in DOMAIN by_name => by_name[n] = fixed[n]

\* C14: the findings of a ScanResult are in ascending order of package name,
\* whatever order the concurrent registry checks completed in.
C14_FindingsSorted ==
    npc = "done" =>
        \A i, j \in 1..Len(findings) :
            i < j => ~str_lt(findings[j].package, findings[i].package)

C14_Witness ==
    /\ npc = "done"
    /\ Len(findings) = 2
    /\ Len(results) = 2
    /\ results[1].package = findings[2].package
    /\ results[2].package = findings[1].package
    /\ findings[1].package # findings[2].package

\* Two URLs belong to one group: neither parses, or both do and they have
\* the same scheme, host and port.
SameSite(u, v) ==
    IF u.parses /\ v.parses
    THEN u.scheme = v.scheme /\ u.host = v.host /\ u.port = v.port
    ELSE ~u.parses /\ ~v.parses

\* C15: group_by_host partitions its input: every input URL is in exactly
\* one group, a group holds the URLs of one scheme://host[:port] (the empty
\* key for those that do not parse), the groups are in the order of their
\* first URL in the input and the URLs of a group are in input order.
C15_GroupByHostPartitions ==
    ret.f = "group_by_host" =>
        LET gs == ret.value
            us == arg.urls
        IN  /\ \A i \in 1..Len(gs) :
                  /\ gs[i].urls # <<>>
                  /\ gs[i].urls = SelectSeq(us, LAMBDA u : SameSite(u, gs[i].urls[1]))
                  /\ (gs[i].key = <<>>) <=> ~gs[i].urls[1].parses
                  /\ gs[i].urls[1].parses =>
                        gs[i].key = <<gs[i].urls[1].scheme, "://", gs[i].urls[1].host,
                                      gs[i].urls[1].port>>
            /\ \A i, j \in 1..Len(gs) :
                  i < j =>
                      /\ ~SameSite(gs[i].urls[1], gs[j].urls[1])
                      /\ \E a \in 1..Len(us) :
                            /\ us[a] = gs[i].urls[1]
                            /\ \A b \in 1..a : ~SameSite(us[b], gs[j].urls[1])
            /\ \A a \in 1..Len(us) : \E i \in 1..Len(gs) : SameSite(us[a], gs[i].urls[1])

C15_Witness ==
    /\ ret.f = "group_by_host"
    /\ Len(ret.value) = 2
    /\ Len(arg.urls) = 3
    /\ Len(ret.value[1].urls) = 2
    /\ ret.value[1].urls[1] # ret.value[1].urls[2]
    /\ arg.urls[2] = ret.value[2].urls[1]
    /\ ret.value[1].urls[1].port # ret.value[2].urls[1].port

\* The severity the specification gives a result variant, for a name that
\* is_likely_internal or not.
SeverityOf(variant, internal) ==
    CASE variant = "ScopeNotClaimed" -> "Critical"
      [] variant = "NotFound" /\ internal -> "High"
      [] variant = "NotFound" /\ ~internal -> "Medium"
      [] variant = "Exists" -> "Info"
      [] variant = "Error" -> "Low"

\* C16: create_finding assigns severity from the result variant and
\* is_likely_internal(name) alone: ScopeNotClaimed Critical, NotFound High
\* if internal else Medium, Exists Info, Error Low.
C16_SeverityFromVariant ==
    ret.f = "create_finding" =>
        /\ ret.value.severity =
              SeverityOf(arg.npm_result.variant, is_likely_internal(arg.package.name))
        /\ ret.value.package = arg.package
        /\ ret.value.npm_result = arg.npm_result

C16_Witness ==
    /\ ret.f = "create_finding"
    /\ arg.npm_result.variant = "NotFound"
    /\ ~is_likely_internal(arg.package.name)
    /\ starts_with(arg.package.name, <<"@">>)
    /\ contains(arg.package.name, <<"c", "o", "r", "p">>)
    /\ ret.value.severity = "Medium"

\* C18: normalize_package_name never returns a Node built-in module name:
\* for every raw name, with a sub-path or a node: prefix or neither, the
\* result is None or a name outside the built-in set.
C18_NeverBuiltin ==
    ret.f = "normalize_package_name" =>
        (ret.value.some => ret.value.value \notin BUILTINS)

\* The names seen under node_modules/ paths, and under packages/ paths that
\* contain no node_modules/.
SeenUnder(marker, path) ==
    LET name == extract_package_from_path_segment(after_first(path, marker))
    IN  IF contains(path, marker) /\ name.some THEN {name.value} ELSE {}

NamesN ==
    UNION {SeenUnder(Str_node_modules, strip_webpack(arg.content.sources[k].path))
           : k \in 1..Len(arg.content.sources)}

NamesW ==
    UNION { IF contains(arg.content.sources[k].path, Str_node_modules) THEN {}
            ELSE SeenUnder(Str_packages, strip_webpack(arg.content.sources[k].path))
            : k \in 1..Len(arg.content.sources)}

\* The filters pass name for one of the paths it was seen under.
PassesFilters(name) ==
    \E k \in 1..Len(arg.content.sources) :
        LET path == strip_webpack(arg.content.sources[k].path)
        IN  /\ name \in SeenUnder(Str_node_modules, path) \cup SeenUnder(Str_packages, path)
            /\ ~should_filter_package(name, Some(path), Some(arg.source_url))

Returned(name) == \E p \in ret.value.packages : p.name = name

\* C17, as stated: parse returns workspace_only = W minus N, no returned
\* package has a name in workspace_only, and a name seen under both kinds
\* of path is kept and is not in workspace_only.
C17_WorkspaceOnly ==
    (ret.f = "parse" /\ ret.value.ok) =>
        /\ ret.value.workspace_only = NamesW \ NamesN
        /\ \A p \in ret.value.packages : p.name \notin ret.value.workspace_only
        /\ \A name \in NamesW \cap NamesN :
              name \notin ret.value.workspace_only /\ Returned(name)

\* C17, amended: as above, but a name seen under both kinds of path is kept
\* when should_filter_package passes it.
C17_WorkspaceOnlyAmended ==
    (ret.f = "parse" /\ ret.value.ok) =>
        /\ ret.value.workspace_only = NamesW \ NamesN
        /\ \A p \in ret.value.packages : p.name \notin ret.value.workspace_only
        /\ \A name \in NamesW \cap NamesN :
              /\ name \notin ret.value.workspace_only
              /\ PassesFilters(name) => Returned(name)

C17_Witness ==
    /\ ret.f = "parse"
    /\ ret.value.ok
    /\ Len(arg.content.sources) = 3
    /\ arg.content.sources[1] = Source(Str_scoped_path, RequireScoped)
    /\ ret.value.workspace_only = {Str_scoped}
    /\ NamesW \cap NamesN = {Str_lodash}
    /\ {p.name : p \in ret.value.packages} = {Str_lodash}
    /\ {p.confidence : p \in ret.value.packages} = {"High", "Low"}

Urls(caps) == [j \in 1..Len(caps) |-> caps[j].url]

\* C19: capture_multiple(urls) returns exactly one (url, result) pair per
\* input URL, in input order, on every path: initial launch failure,
\* periodic restart that succeeds or fails, hard timeout with a relaunch
\* that succeeds or fails.  While the loop runs the pairs pushed so far are
\* those of the URLs before the current one.
C19_OnePairPerUrl ==
    \A k \in Slots :
        /\ (groups[k].pc = "process" /\ ~groups[k].single) =>
              Urls(groups[k].capture_results) = groups[k].urls
        /\ (groups[k].pc = "loop" /\ ~groups[k].single) =>
              Urls(groups[k].capture_results) = SubSeq(groups[k].urls, 1, groups[k].i - 1)

\* A batch of more than RESTART_EVERY URLs has returned after a periodic
\* restart failed at one URL and succeeded at the next.
C19_Witness ==
    \E k \in Slots :
        /\ groups[k].pc = "process"
        /\ ~groups[k].single
        /\ Len(groups[k].urls) > RESTART_EVERY
        /\ \E j \in 1..(Len(groups[k].capture_results) - 1) :
              /\ groups[k].capture_results[j].err = "Browser restart failed"
              /\ groups[k].capture_results[j + 1].ok

\* A short batch has returned after a hard timeout whose relaunch failed.
C19_WitnessTimeout ==
    \E k \in Slots :
        /\ groups[k].pc = "process"
        /\ ~groups[k].single
        /\ \E j \in 1..(Len(groups[k].capture_results) - 1) :
              /\ groups[k].capture_results[j] = CapOk(groups[k].urls[j], 0)
              /\ groups[k].capture_results[j + 1].err =
                    "Browser not available after restart failure"

ConfigErrors ==
    {"Browser launch failed", "Browser restart failed",
     "Browser not available after restart failure"}

\* C20: in capture_multiple, once a browser launch fails (the initial launch
\* or a later relaunch), every URL of the batch not yet processed gets a
\* configuration-error result and no page is captured for it.
C20_LaunchFailureFailsRest ==
    \A k \in Slots :
        (~groups[k].single /\ groups[k].launch_failed_from > 0) =>
            \A j \in groups[k].launch_failed_from..Len(groups[k].capture_results) :
                /\ ~groups[k].capture_results[j].ok
                /\ groups[k].capture_results[j].err \in ConfigErrors

\* The capture_multiple calls under way or returned.
Batches == {k \in Slots : groups[k].pc # "none" /\ ~groups[k].single}

\* C21: when the hard timeout fires in capture_multiple, the browser handle
\* and its handler task are dropped before the new browser is launched, and
\* the URL's result is an empty success whether the relaunch succeeds or not.
C21_TimeoutDropsThenRelaunches ==
    /\ [](\A k \in Batches :
            groups[k].pc = "relaunch" =>
                /\ ~groups[k].current_browser
                /\ groups[k].current_handler_task = "aborted"
                /\ groups[k].live_browsers = 0
                /\ groups[k].live_tasks = 0)
    /\ [][\A k \in Batches :
            (groups[k].pc = "relaunch" /\ groups'[k].pc \in {"loop", "process"}) =>
                groups'[k].capture_results =
                    Append(groups[k].capture_results,
                           [url |-> cur(groups[k]), ok |-> TRUE, files |-> 0, err |-> ""])]_vars

\* The relaunch after a hard timeout has failed: the URL that timed out has
\* an empty success and the loop is at the next URL without a browser.
C21_Witness ==
    \E k \in Batches :
        /\ groups[k].pc = "loop"
        /\ ~groups[k].current_browser
        /\ groups[k].launch_failed_from = groups[k].i
        /\ groups[k].capture_results[groups[k].i - 1] =
              [url |-> groups[k].urls[groups[k].i - 1], ok |-> TRUE, files |-> 0, err |-> ""]

\* C22: in capture_multiple no browser instance serves more than
\* RESTART_EVERY page captures, and a relaunch after a hard timeout restarts
\* the page count (the URL that timed out is the first page counted).
C22_FiftyPagesPerBrowser ==
    /\ [](\A k \in Batches : groups[k].pages_on_browser <= RESTART_EVERY)
    /\ [][\A k \in Batches :
            (groups[k].pc = "relaunch" /\ groups'[k].current_browser) =>
                groups'[k].pages_used = 1 /\ groups'[k].pages_on_browser = 0]_vars

\* A batch whose second URL timed out: the browser relaunched then has been
\* replaced after 49 more pages, before URL 52.
C22_Witness ==
    \E k \in Batches :
        /\ groups[k].pc = "loop"
        /\ groups[k].i = RESTART_EVERY + 2
        /\ groups[k].capture_results[2] =
              [url |-> groups[k].urls[2], ok |-> TRUE, files |-> 0, err |-> ""]
        /\ launched[groups[k].temp_dir + 1] = 3
        /\ groups[k].restarted
        /\ groups[k].pages_used = RESTART_EVERY

\* C23: during a capture_multiple call at most one browser handle and at
\* most one handler task are live: none while a replacement is being
\* launched, and none once the call has returned.
C23_OneBrowserOneTask ==
    \A k \in Batches :
        /\ groups[k].live_browsers <= 1
        /\ groups[k].live_tasks <= 1
        /\ groups[k].live_browsers = (IF groups[k].current_browser THEN 1 ELSE 0)
        /\ groups[k].pc \in {"restart", "relaunch", "process"} =>
              groups[k].live_browsers = 0 /\ groups[k].live_tasks = 0

\* A batch has returned after its browser was replaced at least once.
C23_Witness ==
    \E k \in Batches :
        /\ groups[k].pc = "process"
        /\ launched[groups[k].temp_dir + 1] >= 2
        /\ groups[k].current_handler_task = "aborted"

\* C24: every browser instance launched in a run, relaunches included, has a
\* user-data directory no other instance of the run is launched with.
C24_UniqueUserDataDir ==
    \A d \in 1..Len(launched) : launched[d] <= 1

\* C27: scan_multiple has at most max(parallel, 1) host groups being
\* scanned at any moment; with parallel 0 or 1 the groups run one at a time.
C27_BoundedParallelism ==
    /\ Cardinality(InFlight) <= (IF parallel >= 1 THEN parallel ELSE 1)
    /\ parallel \in {0, 1} => Cardinality(InFlight) <= 1

\* With parallel = 0 one group is being scanned while another waits.
C27_Witness ==
    /\ parallel = 0
    /\ spc = "running"
    /\ Cardinality(InFlight) = 1
    /\ host_groups # <<>>


\* C28: every HTTP request of fetch_one (retries included) and of
\* check_package (the scope-ownership cascade included) follows an admission
\* of its own from the rate limiter: no call has sent more requests than it
\* was granted admissions.
C28_AdmissionPerRequest ==
    /\ \A c \in FetchIds : fcalls[c].requests <= fcalls[c].admissions
    /\ \A i \in 1..Len(ncalls) : ncalls[i].requests <= ncalls[i].admissions

C25_LazyRounds ==
    LET r == lazy.rounds
    IN  /\ Len(r) <= 3
        /\ \A k \in 1..Len(r) :
              /\ r[k].yielded \subseteq lazy.seen_urls \cup lazy.new_urls
              /\ \A j \in 1..k :
                    r[k].yielded \cap {lazy.all_js_files[i].url : i \in r[j].scanned} = {}
              /\ r[k].yielded = {} => k = Len(r) /\ lazy.pc = "done"
              /\ k < Len(r) => r[k + 1].scanned = r[k].pushed
              /\ \A j \in 1..Len(r) : j # k => r[j].scanned \cap r[k].scanned = {}
        /\ lazy.pc = "done" =>
              \/ Len(r) = 3
              \/ r[Len(r)].yielded = {}
        /\ (lazy.pc # "none" /\ r # <<>>) =>
              r[1].scanned = {i \in 1..Len(lazy.all_js_files) :
                                 \A k \in 1..Len(r) : i \notin r[k].pushed}

C25_Witness ==
    /\ lazy.pc = "done"
    /\ Len(lazy.rounds) = 3
    /\ lazy.rounds[3].yielded # {}
    /\ lazy.rounds[2].pushed # {}
    /\ Cardinality(lazy.rounds[1].pushed) = 2


\* The number of samples at the end of s.samples that are equal to the one
\* before them.
Unchanged(samples) ==
    LET n == Len(samples)
        same(k) == \A j \in (n - k + 1)..n : samples[j] = samples[j - 1]
    IN  CHOOSE k \in 0..(n - 1) : same(k) /\ (k < n - 1 => ~same(k + 1))

C26_WitnessCap ==
    /\ settle.pc = "done"
    /\ settle.samples = <<0, 0, 0, 1, 1, 1, 2>>


\* C30: with concurrent callers of RegistryCache no step removes an entry
\* that has not reached its expiry time: what set stored stays until its TTL
\* has passed or another set overwrites it.
C30_UnexpiredNeverRemoved ==
    [][\A name \in PkgNames :
          (cache[name].present /\ now < cache[name].expires_at) =>
              cache'[name].present]_vars

====
